---- MODULE Spec2Model ----
(***************************************************************************)
(* The e-commerce monitoring lab: three gin service nodes (user-service,   *)
(* product-service, order-service), the app1 demo service and the traffic  *)
(* generator.  Every request is followed through its chain of spans, log   *)
(* lines and reads/writes of the in-memory tables.  The tables are plain   *)
(* Go package variables without any lock, so every read and every write of *)
(* them is a step of its own and requests interleave between them.         *)
(***************************************************************************)
EXTENDS Integers, Sequences, FiniteSets, TLC

VARIABLES
    users,          \* user-service: var users
    products,       \* product-service: var products (id -> price, stock)
    orders,         \* order-service: var orders
    orderCounter,   \* order-service: var orderCounter
    stock0,         \* history: every product's stock at the start
    slot,           \* one in-flight request chain per slot: position and locals
    spans,          \* per slot: the spans started along the chain, in start order
    gen,            \* traffic generator: startup, clock, scenario loops
    logs            \* per slot: the log lines emitted along the chain

mesh == <<users, products, orders, orderCounter, stock0, slot, spans, logs>>

vars == <<users, products, orders, orderCounter, stock0, slot, spans, logs, gen>>

----------------------------------------------------------------------------
(* Bounds of the model *)

\* Largest stock a product starts with (any stock is reachable through
\* earlier reserve / release requests).
MaxStock == 2

\* Requests handled concurrently (each gin request runs on its own goroutine).
Slots == {"a", "b"}

\* Seconds of generator time followed once the scenario loops run: long
\* enough for the slowest scenario loop followed to a timeout (a tick at 10 s
\* and the client's 30 s) to take its next tick.
MaxTime == 41

\* Health polls of waitForServices that may go unanswered or be refused.
MaxPolls == 2

\* Finished spans the queue of a batch span processor holds (the SDK's
\* default is 2048), small enough for one request to fill it.
MaxQueueSize == 3

\* Requests one client sends one after the other where a request is repeated.
MaxRepeats == 2

----------------------------------------------------------------------------
(* Domain data *)

\* user-service main.go: the three seeded users.
InitUsers ==
    << [id |-> 1, email |-> "john@example.com",  password |-> "password123"],
       [id |-> 2, email |-> "jane@example.com",  password |-> "password123"],
       [id |-> 3, email |-> "alice@example.com", password |-> "password123"] >>

\* product-service: products 1 and 2 of the seeded table; prices in cents.
ProductIds == {1, 2}
PriceOf(p) == IF p = 1 THEN 129999 ELSE 89999

\* CreateOrderRequest bodies sent to POST /orders.  valid = FALSE is a body
\* ShouldBindJSON rejects.
Item(p, q) == [product_id |-> p, quantity |-> q]
OrderBody(u, its) == [valid |-> TRUE, user_id |-> u, items |-> its]
BadBody == [valid |-> FALSE, user_id |-> 0, items |-> <<>>]

\* The body of the guide's "Trace de request completo" exercise, as a JSON
\* object: {"user_id":1,"products":[{"id":1,"quantity":2}]}.
DocumentedJSON == [user_id |-> 1, products |-> <<[id |-> 1, quantity |-> 2]>>]

\* Member name of JSON object j, or the zero value of the Go field.
Field(j, name, zero) == IF name \in DOMAIN j THEN j[name] ELSE zero

\* c.ShouldBindJSON(&req) for a JSON object whose members have the right
\* types: the struct takes the members its json tags name (user_id, items,
\* and product_id, quantity in each item), ignores the others and leaves
\* the fields that are missing at their zero value; no field is required.
ShouldBindJSON(j) ==
    LET its == Field(j, "items", <<>>)
    IN  OrderBody(Field(j, "user_id", 0),
                  [k \in 1..Len(its) |-> Item(Field(its[k], "product_id", 0),
                                              Field(its[k], "quantity", 0))])

OrderBodies ==
    { BadBody,
      OrderBody(7, <<Item(1, 1)>>),
      ShouldBindJSON(DocumentedJSON),
      OrderBody(1, <<Item(1, 1), Item(2, 1)>>),
      OrderBody(2, <<Item(2, 1), Item(1, 2)>>),
      OrderBody(1, <<Item(1, 1), Item(1, 1)>>),
      OrderBody(3, <<Item(2, 1), Item(9, 1)>>) }

\* createOrder of the generator always sends a well-formed body.
GeneratorBodies == { OrderBody(1, <<Item(1, 1), Item(2, 1)>>) }

\* Quantities of direct reserve-inventory requests, products addressed.
ReserveQuantities == {1, 2}
ReserveProducts == {1, 9}

----------------------------------------------------------------------------
(* Trace context, spans and log lines *)

NoCtx == [trace |-> <<>>, span |-> 0]
NoHeader == <<>>
MalformedHeader == <<"zz">>

\* An extraction that takes a header it cannot parse for the context of one
\* fixed trace instead of none.
ExtractUnchecked(h) ==
    IF Len(h) = 4 /\ h[1] = "00" THEN [trace |-> h[2], span |-> h[3]]
    ELSE IF h = <<>> THEN [trace |-> <<>>, span |-> 0]
    ELSE [trace |-> <<"a", 0>>, span |-> 0]

\* propagation.TraceContext: the traceparent header, version-traceid-spanid-flags.
Inject(ctx) ==
    IF ctx = NoCtx THEN NoHeader ELSE <<"00", ctx.trace, ctx.span, "01">>

Extract(h) ==
    IF Len(h) = 4 /\ h[1] = "00" THEN [trace |-> h[2], span |-> h[3]] ELSE NoCtx

\* tracer.Start(ctx, name): a child of the span in ctx, or a new root with a
\* trace id of its own when ctx carries none.  The new span is the last of sp.
\* (The spans and the context are bound through singleton sets so that they
\* are computed once, however deep the expressions they are given by.)
StartSpan(sp, s, ctx, svc, name) ==
    CHOOSE r \in
        { Append(x, [ name    |-> name,
                      service |-> svc,
                      parent  |-> c.span,
                      trace   |-> IF c = NoCtx THEN <<s, Len(x) + 1>> ELSE c.trace,
                      error   |-> "",
                      sink    |-> "",
                      ends    |-> 0 ]) : x \in {sp}, c \in {ctx} } : TRUE

\* The context tracer.Start returns with span k of sp.
CtxOf(sp, k) == [trace |-> sp[k].trace, span |-> k]

\* span.SetAttributes(attribute.String("error", e)), the only way the code
\* marks a span as failed (no status is ever set); e = "" sets nothing.
SetError(sp, k, e) == IF e = "" THEN sp ELSE [sp EXCEPT ![k].error = e]

\* The finished spans of service svc among sp that wait in the queue of the
\* service's batch span processor.  The trace sink takes none of them.
Queued(sp, svc) ==
    Cardinality({j \in DOMAIN sp : sp[j].service = svc /\ sp[j].sink = "queued"})

\* A span processor that waits for room in its queue.
OnEndBlocking(sp, k) ==
    IF Queued(sp, sp[k].service) < MaxQueueSize THEN "queued" ELSE "blocked"

\* sdktrace.WithBatcher(exporter) with its default options: the processor
\* puts a finished span in its queue, or drops it when the queue is full;
\* the export runs in a goroutine of the processor.
OnEnd(sp, k) ==
    IF Queued(sp, sp[k].service) < MaxQueueSize THEN "queued" ELSE "dropped"

\* span.End(), with the spans bound as in StartSpan.
EndSpan(sp, k) ==
    CHOOSE r \in { [x EXCEPT ![k].ends = @ + 1, ![k].sink = OnEnd(x, k)] :
                     x \in {sp} } : TRUE

\* logrus.WithFields(...).<Level>(msg)
LogLine(svc, level, msg, trace, err) ==
    [service |-> svc, level |-> level, msg |-> msg, trace |-> trace, error |-> err,
     status |-> 0]

\* loggingMiddleware: gin.LoggerWithFormatter, one "HTTP request" line after
\* the handler returned; it has no trace_id field.
MiddlewareLine(svc, status) ==
    [service |-> svc, level |-> "info", msg |-> "HTTP request", trace |-> <<>>,
     error |-> "", status |-> status]

----------------------------------------------------------------------------
(* The traffic generator: nodes, loops and scenarios *)

\* waitForServices polls the nodes in this order.
Services == <<"user-service", "product-service", "order-service">>

Nodes == {Services[k] : k \in 1..3}

\* The goroutines main starts after waitForServices.
Loops ==
    { "generateUserTraffic", "generateProductTraffic", "generateOrderTraffic",
      "generateHealthChecks", "generateAdvancedUserTraffic",
      "generateAdvancedProductTraffic", "generateAdvancedOrderTraffic" }

\* Seconds between two ticks of a loop's time.Tick.
Interval(l) ==
    CASE l = "generateUserTraffic" -> 5
      [] l = "generateProductTraffic" -> 4
      [] l = "generateOrderTraffic" -> 10
      [] l = "generateHealthChecks" -> 20
      [] l = "generateAdvancedUserTraffic" -> 4
      [] l = "generateAdvancedProductTraffic" -> 3
      [] l = "generateAdvancedOrderTraffic" -> 8

\* httpClient.Timeout of the generator, in seconds.
Timeout == 30

\* Seconds after which the tickers of all loops are in phase again (the least
\* common multiple of the intervals): clock values and tick counts are kept
\* modulo one such period.
Period == 120

\* One makeRequest: the node it is sent to and the nodes that node's handler
\* calls before it answers.
Call(to, via) == [to |-> to, via |-> via]

\* The call sequences of a loop's scenarios.  createOrder always returns 0
\* (makeRequest has drained the body before createOrder reads it), and the
\* generator's login emails are no user's, so the calls that would follow a
\* created order or a successful login are never made.
Scenarios(l) ==
    CASE l = "generateUserTraffic" ->
            { <<Call("user-service", {})>>,                       \* login, registration
              <<Call("user-service", {"product-service"})>> }     \* favorites
      [] l = "generateProductTraffic" ->
            { <<Call("product-service", {})>>,                    \* browse, search
              <<Call("product-service", {}), Call("product-service", {})>> }
      [] l = "generateOrderTraffic" ->
            { <<Call("order-service", {"user-service", "product-service"})>>,
              <<Call("order-service", {})>> }
      [] l = "generateHealthChecks" ->
            { <<Call("user-service", {}), Call("product-service", {}),
                Call("order-service", {})>> }
      [] l = "generateAdvancedUserTraffic" ->
            { <<Call("user-service", {})>> }
      [] l = "generateAdvancedProductTraffic" ->
            { <<Call("product-service", {})>> }
      [] l = "generateAdvancedOrderTraffic" ->
            { <<Call("order-service", {})>>,
              <<Call("order-service", {"user-service", "product-service"})>> }

IdleLoop ==
    [ pc |-> "idle", pending |-> FALSE, until |-> 0, runs |-> 0, calls |-> <<>>,
      timedOut |-> FALSE, sp |-> <<>>, used |-> {} ]

\* The generator as main enters waitForServices, no node known to be up.
GenStart ==
    [ phase |-> "waiting", w |-> 1, polls |-> 0, ok200 |-> {},
      status |-> [n \in Nodes |-> "starting"], down |-> "none",
      now |-> 0, sent |-> FALSE, count |-> TRUE,
      loop |-> [l \in Loops |-> IdleLoop] ]

----------------------------------------------------------------------------
(* A slot *)

IdleSlot ==
    [ pc |-> "idle", kind |-> "none", origin |-> "none",
      body |-> BadBody, pid |-> 0, qty |-> 0,
      email |-> "", password |-> "", endpoint |-> "",
      i |-> 0, price |-> 0, items |-> <<>>, total |-> 0,
      cnt |-> 0, snap |-> <<>>, ld |-> 0,
      status |-> 0, lookups |-> 0, reserves |-> 0, resIds |-> <<>>,
      netErr |-> FALSE, short |-> FALSE, resFailed |-> FALSE,
      appended |-> FALSE, advanced |-> FALSE,
      granted |-> [p \in ProductIds |-> 0], after |-> <<>>,
      sender |-> "none", draw |-> 0, net |-> "none",
      inc |-> <<>>, obs |-> 0,
      oid |-> 0, ptr |-> 0, arr |-> 0, payId |-> "",
      wrote |-> FALSE, was |-> 0, prior |-> {},
      sent |-> 0, resp |-> <<>>,
      root |-> 0, gh |-> 0, srv |-> 0, hs |-> 0, cs |-> 0, psrv |-> 0, phs |-> 0 ]

StockTables ==
    { [p \in ProductIds |-> [price |-> PriceOf(p), stock |-> st[p]]] :
        st \in [ProductIds -> 1..MaxStock] }

Init ==
    /\ users = InitUsers
    /\ products \in StockTables
    /\ stock0 = [p \in ProductIds |-> products[p].stock]
    /\ orders = <<>>
    /\ orderCounter = 1
    /\ slot = [s \in Slots |-> IdleSlot]
    /\ spans = [s \in Slots |-> <<>>]
    /\ logs = [s \in Slots |-> <<>>]
    /\ gen = GenStart

----------------------------------------------------------------------------
(* The client's side of a request *)

\* Who sends a request: the traffic generator, or any other client, whose
\* request has no traceparent header or one that does not parse.
Senders == {"generator", "absent", "malformed"}

\* generateOrderTraffic / generateUserTraffic: tracer.Start(context.Background(),
\* "<x>_workflow"), then the helper's tracer.Start(ctx, ...).
WorkflowName(kind) ==
    IF kind = "order" THEN "order_workflow" ELSE "user_workflow"

HelperName(kind) ==
    IF kind = "order" THEN "create_order"
    ELSE IF kind = "favorites" THEN "get_user_favorites" ELSE "login_request"

\* The spans of slot s once the request is on its way: the generator's tick
\* span and helper span, none for another client.
SentSpans(sp, s, kind, from) ==
    IF from = "generator"
    THEN LET sp1 == StartSpan(sp, s, NoCtx, "traffic-generator", WorkflowName(kind))
         IN  StartSpan(sp1, s, CtxOf(sp1, Len(sp1)), "traffic-generator",
                       HelperName(kind))
    ELSE sp

\* The request's traceparent header: makeRequest injects the helper's context.
SentHeader(sp, from) ==
    IF from = "generator" THEN Inject(CtxOf(sp, Len(sp)))
    ELSE IF from = "malformed" THEN MalformedHeader
    ELSE NoHeader

\* The slot of a request of this kind on its way.
SentSlot(sl, sp, kind, from) ==
    [sl EXCEPT !.kind = kind, !.sender = from,
               !.origin = IF from = "generator" THEN "generator" ELSE "external",
               !.root = IF from = "generator" THEN Len(sp) - 1 ELSE 0,
               !.gh = IF from = "generator" THEN Len(sp) ELSE 0]

\* io.ReadAll(resp.Body) in createOrder: what is left to read of the body of
\* the response makeRequest returned.  makeRequest has copied the body to
\* io.Discard and its deferred resp.Body.Close() has run, so nothing is.
BodyLeft(body) == <<>>

\* createOrder's return value for a response with status st and a body that
\* holds the order's id: the id parsed from what it reads, or 0.
CreateOrderId(st, body) ==
    IF st = 201 /\ Len(BodyLeft(body)) > 0 THEN BodyLeft(body)[1] ELSE 0

\* generateOrderTraffic after createOrder returned orderID: if orderID > 0,
\* processPayment, time.Sleep, getOrder, updateOrderStatus "shipped".
FollowUps(orderID) ==
    IF orderID > 0
    THEN <<"process_payment", "sleep", "get_order", "update_order_status">>
    ELSE <<>>

\* The response is back at the client.  In the generator, makeRequest logs
\* "HTTP request completed", the helper's deferred span.End() runs, then the
\* loop body's span.End().
ClientSpans(sp, sl) ==
    IF sl.origin = "generator" THEN EndSpan(EndSpan(sp, sl.gh), sl.root) ELSE sp

ClientLogs(lg, sp, sl) ==
    IF sl.origin = "generator"
    THEN Append(lg, LogLine("traffic-generator", "info", "HTTP request completed",
                            sp[sl.gh].trace, ""))
    ELSE lg

----------------------------------------------------------------------------
(* Common to the gin services *)

\* r.Use(otelgin.Middleware(serviceName)): the server span, a child of the
\* context extracted from the request headers; then the handler's
\* tracer.Start(c.Request.Context(), name).  Returns the spans; the server span
\* is the last but one, the handler's span the last.
Enter(sp, s, hdr, svc, route, name) ==
    LET sp1 == StartSpan(sp, s, Extract(hdr), svc, route)
    IN  StartSpan(sp1, s, CtxOf(sp1, Len(sp1)), svc, name)

\* The handler returns with status st: its deferred span.End(), the logging
\* middleware's line, the end of the server span; the response reaches the
\* client.
Answer(s, sl, sp, lg, svc, st) ==
    LET sp1 == EndSpan(EndSpan(sp, sl.hs), sl.srv)
        lg1 == Append(lg, MiddlewareLine(svc, st))
    IN  /\ spans' = [spans EXCEPT ![s] = ClientSpans(sp1, sl)]
        /\ logs' = [logs EXCEPT ![s] = ClientLogs(lg1, sp1, sl)]
        /\ slot' = [slot EXCEPT ![s] = [sl EXCEPT !.pc = "done", !.status = st]]

----------------
(* user-service: GET /users/:id *)

UserExists(uid) == \E k \in 1..Len(users) : users[k].id = uid

\* getUserHandler, handled from start to end: it only reads the users table.
\* [sp, lg, status]
GetUserHandler(sp, lg, s, hdr, uid) ==
    LET sp2 == Enter(sp, s, hdr, "user-service", "GET /users/:id", "get_user")
        h == Len(sp2)
        st == IF UserExists(uid) THEN 200 ELSE 404
        line == IF UserExists(uid)
                THEN LogLine("user-service", "info", "User retrieved successfully",
                             sp2[h].trace, "")
                ELSE LogLine("user-service", "warning", "User not found",
                             sp2[h].trace, "user_not_found")
    IN  [ sp |-> EndSpan(EndSpan(SetError(sp2, h, line.error), h), h - 1),
          lg |-> Append(Append(lg, line), MiddlewareLine("user-service", st)),
          status |-> st ]

----------------------------------------------------------------------------
(* product-service: GET /products/:id *)

\* getProductHandler, handled from start to end: it only reads the products
\* table.  [sp, lg, status, price]
GetProductHandler(sp, lg, s, hdr, pid) ==
    LET sp2 == Enter(sp, s, hdr, "product-service", "GET /products/:id", "get_product")
        h == Len(sp2)
        found == pid \in DOMAIN products
        st == IF found THEN 200 ELSE 404
        line == IF found
                THEN LogLine("product-service", "info", "Product retrieved successfully",
                             sp2[h].trace, "")
                ELSE LogLine("product-service", "warning", "Product not found",
                             sp2[h].trace, "product_not_found")
    IN  [ sp |-> EndSpan(EndSpan(SetError(sp2, h, line.error), h), h - 1),
          lg |-> Append(Append(lg, line), MiddlewareLine("product-service", st)),
          status |-> st,
          price |-> IF found THEN products[pid].price ELSE 0 ]

----------------------------------------------------------------------------
(* order-service: the outbound-call helpers *)

\* validateUser with its span started from context.Background() instead of
\* the handler's context.
ValidateUserDetached(sp, lg, s, ctx, uid, net) ==
    LET sp1 == StartSpan(sp, s, NoCtx, "order-service", "validate_user_call")
        c == Len(sp1)
    IN  IF net = "fail"
        THEN [sp |-> EndSpan(SetError(sp1, c, "request_failed"), c), lg |-> lg,
              ok |-> FALSE]
        ELSE LET r == GetUserHandler(sp1, lg, s, Inject(CtxOf(sp1, c)), uid)
             IN  [sp |-> EndSpan(r.sp, c), lg |-> r.lg, ok |-> r.status = 200]

\* validateUser(ctx, userID): net = "fail" is httpClient.Do returning an error.
\* [sp, lg, ok]
ValidateUser(sp, lg, s, ctx, uid, net) ==
    LET sp1 == StartSpan(sp, s, ctx, "order-service", "validate_user_call")
        c == Len(sp1)
    IN  IF net = "fail"
        THEN [sp |-> EndSpan(SetError(sp1, c, "request_failed"), c), lg |-> lg,
              ok |-> FALSE]
        ELSE LET r == GetUserHandler(sp1, lg, s, Inject(CtxOf(sp1, c)), uid)
             IN  [sp |-> EndSpan(r.sp, c), lg |-> r.lg, ok |-> r.status = 200]

\* getProductDetails(ctx, productID).  [sp, lg, ok, price]
GetProductDetails(sp, lg, s, ctx, pid, net) ==
    LET sp1 == StartSpan(sp, s, ctx, "order-service", "get_product_details_call")
        c == Len(sp1)
    IN  IF net = "fail"
        THEN [sp |-> EndSpan(SetError(sp1, c, "request_failed"), c), lg |-> lg,
              ok |-> FALSE, price |-> 0]
        ELSE LET r == GetProductHandler(sp1, lg, s, Inject(CtxOf(sp1, c)), pid)
             IN  [sp |-> EndSpan(r.sp, c), lg |-> r.lg, ok |-> r.status = 200,
                  price |-> r.price]

----------------------------------------------------------------------------
(* product-service: POST /inventory/:id/reserve *)

Net == {"ok", "fail"}

\* The spans of the reserve handler running in slot sl: the slot's own when
\* the request was sent to product-service directly, the peer's when
\* order-service called it.  <<server span, handler span>>
ReserveSpans(sl) ==
    IF sl.kind = "reserve" THEN <<sl.srv, sl.hs>> ELSE <<sl.psrv, sl.phs>>

\* A stock check that refuses only a product that is out of stock.
ReserveCheckOutOfStock(pid, qty) ==
    IF pid \notin DOMAIN products THEN 404
    ELSE IF products[pid].stock <= 0 THEN 409
    ELSE 200

\* reserveInventoryHandler up to its stock check: the range loop copies the
\* product and compares the copy's Stock with the requested quantity.
\* 404: no such product, 409: insufficient stock, 200: go on to reserve.
ReserveCheck(pid, qty) ==
    IF pid \notin DOMAIN products THEN 404
    ELSE IF products[pid].stock < qty THEN 409
    ELSE 200

\* The error attribute reserveInventoryHandler sets on its span before
\* answering st.
ReserveError(st) ==
    IF st = 409 THEN "insufficient_stock"
    ELSE IF st = 404 THEN "product_not_found" ELSE ""

\* The line reserveInventoryHandler logs before answering st (none for 404).
ReserveLog(lg, st, trace) ==
    IF st = 409
    THEN Append(lg, LogLine("product-service", "warning",
                            "Insufficient stock for reservation", trace,
                            "insufficient_stock"))
    ELSE IF st = 200
    THEN Append(lg, LogLine("product-service", "info",
                            "Inventory reserved successfully", trace, ""))
    ELSE lg

\* reserveInventoryHandler returns st to its caller inside product-service:
\* log line, deferred span.End(), middleware line, server span.  [sp, lg]
ReserveReturn(sp, lg, sl, st) ==
    LET hs == ReserveSpans(sl)[2]
        srv == ReserveSpans(sl)[1]
    IN  [ sp |-> EndSpan(EndSpan(SetError(sp, hs, ReserveError(st)), hs), srv),
          lg |-> Append(ReserveLog(lg, st, sp[hs].trace),
                        MiddlewareLine("product-service", st)) ]

----------------------------------------------------------------------------
(* order-service: POST /orders *)

NewOrder(sl) ==
    [ id |-> sl.cnt, user_id |-> sl.body.user_id, items |-> sl.items,
      status |-> "pending", total |-> sl.total, payment_id |-> "" ]

OrderError(lg, sp, sl, msg, err) ==
    Append(lg, LogLine("order-service", "error", msg, sp[sl.hs].trace, err))

\* An item loop that goes from one item's reservation straight to the next
\* item's, without the lookup in between.
NextItemSkippingLookup(sl, last) ==
    [sl EXCEPT !.items = Append(@, [ product_id |-> sl.pid,
                                     quantity |-> sl.qty,
                                     price |-> sl.price ]),
               !.total = @ + sl.price * sl.qty,
               !.i = @ + 1,
               !.pc = IF last THEN "build" ELSE "reserve"]

\* The item of slot sl added to the order under construction, the loop index
\* moved on; last says whether the loop is over.
NextItem(sl, last) ==
    [sl EXCEPT !.items = Append(@, [ product_id |-> sl.pid,
                                     quantity |-> sl.qty,
                                     price |-> sl.price ]),
               !.total = @ + sl.price * sl.qty,
               !.i = @ + 1,
               !.pc = IF last THEN "build" ELSE "lookup"]

\* A createOrderHandler that gives back, as POST /inventory/:id/release does
\* (Stock += quantity), what the request had reserved before the failure.
AfterFailedReserveReleasing(pr, sl) ==
    [p \in DOMAIN pr |-> [pr[p] EXCEPT !.stock = @ + sl.granted[p]]]

\* The products table when createOrderHandler returns its 409 after a failed
\* reservation: the handler returns at once, it calls nothing that would give
\* back the stock reserved for the items before.
AfterFailedReserve(pr, sl) == pr

\* createOrderHandler leaving the item loop one item early.
OrderAfterReserveShort(s, sl, sp, lg, ok) ==
    IF ~ok
    THEN Answer(s, sl, SetError(sp, sl.hs, "inventory_reservation_failed"),
                OrderError(lg, sp, sl, "Failed to reserve inventory",
                           "inventory_reservation_failed"),
                "order-service", 409)
    ELSE /\ spans' = [spans EXCEPT ![s] = sp]
         /\ logs' = [logs EXCEPT ![s] = lg]
         /\ slot' = [slot EXCEPT ![s] = NextItem(sl, sl.i + 1 >= Len(sl.body.items))]

\* createOrderHandler going on with the next item whatever reserveInventory
\* returned.
OrderAfterReserveIgnoring(s, sl, sp, lg, ok) ==
    /\ spans' = [spans EXCEPT ![s] = sp]
    /\ logs' = [logs EXCEPT ![s] = lg]
    /\ slot' = [slot EXCEPT ![s] = NextItem(sl, sl.i + 1 > Len(sl.body.items))]

\* Back in createOrderHandler after reserveInventory returned (reserved, err):
\* 409 when it failed, else the item is added and the loop goes on.
OrderAfterReserve(s, sl, sp, lg, ok) ==
    IF ~ok
    THEN Answer(s, sl, SetError(sp, sl.hs, "inventory_reservation_failed"),
                OrderError(lg, sp, sl, "Failed to reserve inventory",
                           "inventory_reservation_failed"),
                "order-service", 409)
    ELSE /\ spans' = [spans EXCEPT ![s] = sp]
         /\ logs' = [logs EXCEPT ![s] = lg]
         /\ slot' = [slot EXCEPT ![s] = NextItem(sl, sl.i + 1 > Len(sl.body.items))]

\* A client sends POST /orders (the generator's createOrder, or anyone else)
\* and the request reaches createOrderHandler: spans, then ShouldBindJSON.
OrderReceive(s) ==
    /\ slot[s].pc = "idle"
    /\ \E b \in OrderBodies, from \in Senders :
        /\ from = "generator" => b \in GeneratorBodies
        /\ LET sp0 == SentSpans(spans[s], s, "order", from)
               sp == Enter(sp0, s, SentHeader(sp0, from), "order-service",
                           "POST /orders", "create_order")
               sl == [SentSlot(slot[s], sp0, "order", from) EXCEPT
                          !.body = b, !.srv = Len(sp) - 1, !.hs = Len(sp)]
           IN  IF ~b.valid
               THEN Answer(s, sl, SetError(sp, sl.hs, "invalid_request"), logs[s],
                           "order-service", 400)
               ELSE /\ spans' = [spans EXCEPT ![s] = sp]
                    /\ slot' = [slot EXCEPT ![s] = [sl EXCEPT !.pc = "validate"]]
                    /\ logs' = logs
    /\ UNCHANGED <<gen, stock0, users, products, orders, orderCounter>>

\* The branch on validateUser's result never taken.
UserAccepted(ok) == FALSE

\* err != nil || !userValid: validateUser gives (false, err) when the call
\* errors and (status == 200, nil) otherwise.
UserRejected(ok) == ~ok

\* validateUser and the branch on its result.
OrderValidate(s) ==
    /\ slot[s].pc = "validate"
    /\ \E net \in Net :
        LET sl == [slot[s] EXCEPT !.netErr = @ \/ (net = "fail")]
            r == ValidateUser(spans[s], logs[s], s, CtxOf(spans[s], sl.hs),
                              sl.body.user_id, net)
        IN  IF UserRejected(r.ok)
            THEN Answer(s, sl, SetError(r.sp, sl.hs, "user_validation_failed"),
                        OrderError(r.lg, r.sp, sl,
                                   "User validation failed during order creation",
                                   "user_validation_failed"),
                        "order-service", 400)
            ELSE /\ spans' = [spans EXCEPT ![s] = r.sp]
                 /\ logs' = [logs EXCEPT ![s] = r.lg]
                 /\ slot' = [slot EXCEPT ![s] =
                        [sl EXCEPT !.i = 1,
                                   !.pc = IF Len(sl.body.items) = 0
                                          THEN "build" ELSE "lookup"]]
    /\ UNCHANGED <<gen, stock0, users, products, orders, orderCounter>>

\* Loop body, first half: getProductDetails for item i.
OrderLookup(s) ==
    /\ slot[s].pc = "lookup"
    /\ \E net \in Net :
        LET sl0 == slot[s]
            it == sl0.body.items[sl0.i]
            sl == [sl0 EXCEPT !.lookups = @ + 1, !.pid = it.product_id,
                              !.qty = it.quantity,
                              !.netErr = @ \/ (net = "fail")]
            r == GetProductDetails(spans[s], logs[s], s, CtxOf(spans[s], sl.hs),
                                   it.product_id, net)
        IN  IF ~r.ok
            THEN Answer(s, sl, SetError(r.sp, sl.hs, "product_fetch_failed"),
                        OrderError(r.lg, r.sp, sl, "Failed to fetch product details",
                                   "product_fetch_failed"),
                        "order-service", 400)
            ELSE /\ spans' = [spans EXCEPT ![s] = r.sp]
                 /\ logs' = [logs EXCEPT ![s] = r.lg]
                 /\ slot' = [slot EXCEPT ![s] =
                        [sl EXCEPT !.price = r.price, !.pc = "reserve"]]
    /\ UNCHANGED <<gen, stock0, users, products, orders, orderCounter>>

\* Loop body, second half: reserveInventory(ctx, productID, quantity,
\* orderCounter) up to the stock check inside product-service.
OrderReserve(s) ==
    /\ slot[s].pc = "reserve"
    /\ \E net \in Net :
        LET sl0 == [slot[s] EXCEPT !.reserves = @ + 1,
                                   !.resIds = Append(@, orderCounter),
                                   !.netErr = @ \/ (net = "fail"),
                                   !.resFailed = (net = "fail")]
            sp1 == StartSpan(spans[s], s, CtxOf(spans[s], sl0.hs),
                             "order-service", "reserve_inventory_call")
            c == Len(sp1)
        IN  IF net = "fail"
            THEN /\ OrderAfterReserve(s, sl0,
                                      EndSpan(SetError(sp1, c, "request_failed"), c),
                                      logs[s], FALSE)
                 /\ products' = AfterFailedReserve(products, sl0)
            ELSE LET sp2 == Enter(sp1, s, Inject(CtxOf(sp1, c)), "product-service",
                                  "POST /inventory/:id/reserve", "reserve_inventory")
                     st == ReserveCheck(sl0.pid, sl0.qty)
                     sl == [sl0 EXCEPT !.cs = c, !.psrv = Len(sp2) - 1,
                                       !.phs = Len(sp2), !.short = @ \/ (st = 409),
                                       !.resFailed = (st # 200)]
                 IN  IF st # 200
                     THEN LET r == ReserveReturn(sp2, logs[s], sl, st)
                          IN  /\ OrderAfterReserve(s, sl, EndSpan(r.sp, c), r.lg, FALSE)
                              /\ products' = AfterFailedReserve(products, sl)
                     ELSE /\ spans' = [spans EXCEPT ![s] = sp2]
                          /\ logs' = logs
                          /\ slot' = [slot EXCEPT ![s] = [sl EXCEPT !.pc = "resLoad"]]
                          /\ products' = products
    /\ UNCHANGED <<gen, stock0, users, orders, orderCounter>>

\* products[i].Stock -= request.Quantity, the read.
ReserveLoad(s) ==
    /\ slot[s].pc = "resLoad"
    /\ slot' = [slot EXCEPT ![s].ld = products[slot[s].pid].stock,
                            ![s].pc = "resStore"]
    /\ UNCHANGED <<gen, stock0, users, products, orders, orderCounter, spans, logs>>

\* products[i].Stock -= request.Quantity, the write; then the 200 answer, to
\* the client or to order-service's reserveInventory.
ReserveStore(s) ==
    /\ slot[s].pc = "resStore"
    /\ products' = [products EXCEPT ![slot[s].pid].stock = slot[s].ld - slot[s].qty]
    /\ LET sl == [slot[s] EXCEPT !.granted[slot[s].pid] = @ + slot[s].qty,
                                 !.wrote = TRUE]
       IN  IF sl.kind = "reserve"
           THEN Answer(s, sl, spans[s],
                       ReserveLog(logs[s], 200, spans[s][sl.hs].trace),
                       "product-service", 200)
           ELSE LET r == ReserveReturn(spans[s], logs[s], sl, 200)
                IN  OrderAfterReserve(s, sl, EndSpan(r.sp, sl.cs), r.lg, TRUE)
    /\ UNCHANGED <<gen, stock0, users, orders, orderCounter>>

\* order := Order{ID: orderCounter, ...}
OrderBuild(s) ==
    /\ slot[s].pc = "build"
    /\ slot' = [slot EXCEPT ![s].cnt = orderCounter, ![s].pc = "appRead"]
    /\ UNCHANGED <<gen, stock0, users, products, orders, orderCounter, spans, logs>>

\* orders = append(orders, order), the read of the slice.
OrderAppendRead(s) ==
    /\ slot[s].pc = "appRead"
    /\ slot' = [slot EXCEPT ![s].snap = orders, ![s].pc = "appWrite"]
    /\ UNCHANGED <<gen, stock0, users, products, orders, orderCounter, spans, logs>>

\* The capacity append gives the backing array of a slice of n orders that
\* grew from the empty slice one element at a time: 0, 1, 2, 4, 8, ...
RECURSIVE Cap(_)
Cap(n) == IF n <= 1 THEN n ELSE 2 * Cap((n + 1) \div 2)

\* append(snap, order) finds the backing array of snap full and moves the
\* slice to a new one.
Grows(snap) == Len(snap) = Cap(Len(snap))

\* The elements of snap as they are now in its backing array: what was
\* stored into an order through a pointer since the slice was read is there.
Current(snap) ==
    [k \in 1..Len(snap) |->
        IF k <= Len(orders) /\ orders[k].id = snap[k].id THEN orders[k]
        ELSE snap[k]]

\* orders = append(orders, order), the write.  When the array is full its
\* elements are copied to the new array at some moment between the read of
\* the slice and this write: a store made through a pointer in between is
\* copied or not.  Otherwise the order is written in place.
OrderAppendWrite(s) ==
    /\ slot[s].pc = "appWrite"
    /\ \E base \in IF Grows(slot[s].snap)
                    THEN {slot[s].snap, Current(slot[s].snap)}
                    ELSE {Current(slot[s].snap)} :
          orders' = Append(base, NewOrder(slot[s]))
    /\ slot' = [slot EXCEPT ![s].snap = <<>>, ![s].appended = TRUE,
                            ![s].pc = "ctrLoad"]
    /\ UNCHANGED <<gen, stock0, users, products, orderCounter, spans, logs>>

\* orderCounter++, the read.
OrderCounterLoad(s) ==
    /\ slot[s].pc = "ctrLoad"
    /\ slot' = [slot EXCEPT ![s].ld = orderCounter, ![s].pc = "ctrStore"]
    /\ UNCHANGED <<gen, stock0, users, products, orders, orderCounter, spans, logs>>

\* orderCounter++, the write; then the log line and the 201.
OrderCounterStore(s) ==
    /\ slot[s].pc = "ctrStore"
    /\ orderCounter' = slot[s].ld + 1
    /\ LET sl == [slot[s] EXCEPT
                     !.advanced = TRUE,
                     !.after = IF slot[s].origin = "generator"
                               THEN FollowUps(CreateOrderId(201, <<slot[s].cnt>>))
                               ELSE <<>>]
       IN  Answer(s, sl, spans[s],
                  Append(logs[s], LogLine("order-service", "info",
                                          "Order created successfully",
                                          spans[s][sl.hs].trace, "")),
                  "order-service", 201)
    /\ UNCHANGED <<gen, stock0, users, products, orders>>

\* The peer called by validateUser, getProductDetails or reserveInventory
\* never answers.  httpClient has no Timeout, so httpClient.Do returns only
\* when the request's context is cancelled, which the server does when the
\* client of this request goes away; a client that waits (the generator gives
\* up after its own timeout and is followed in the generator's
\* specifications) leaves the handler in the call for good.
OrderPeerHangs(s) ==
    /\ slot[s].pc \in {"validate", "lookup", "reserve"}
    /\ slot[s].origin = "external"
    /\ LET name == IF slot[s].pc = "validate" THEN "validate_user_call"
                   ELSE IF slot[s].pc = "lookup" THEN "get_product_details_call"
                   ELSE "reserve_inventory_call"
           sp == StartSpan(spans[s], s, CtxOf(spans[s], slot[s].hs),
                           "order-service", name)
       IN  /\ spans' = [spans EXCEPT ![s] = sp]
           /\ slot' = [slot EXCEPT
                  ![s].lookups = IF slot[s].pc = "lookup" THEN @ + 1 ELSE @,
                  ![s].pid = IF slot[s].pc = "lookup"
                             THEN slot[s].body.items[slot[s].i].product_id ELSE @,
                  ![s].qty = IF slot[s].pc = "lookup"
                             THEN slot[s].body.items[slot[s].i].quantity ELSE @,
                  ![s].reserves = IF slot[s].pc = "reserve" THEN @ + 1 ELSE @,
                  ![s].cs = Len(sp), ![s].pc = "hung"]
    /\ UNCHANGED <<gen, stock0, users, products, orders, orderCounter, logs>>

\* A client sends POST /inventory/:id/reserve and the request reaches
\* reserveInventoryHandler.
ReserveRequest(s, p, q) ==
    /\ slot[s].pc = "idle"
    /\ \E from \in {"absent"} :
        LET sp == Enter(spans[s], s, SentHeader(spans[s], from), "product-service",
                        "POST /inventory/:id/reserve", "reserve_inventory")
            st == ReserveCheck(p, q)
            sl == [SentSlot(slot[s], spans[s], "reserve", from) EXCEPT
                       !.pid = p, !.qty = q, !.srv = Len(sp) - 1, !.hs = Len(sp),
                       !.short = (st = 409),
                       !.was = IF p \in DOMAIN products THEN products[p].stock
                               ELSE 0]
        IN  IF st # 200
            THEN Answer(s, sl, SetError(sp, sl.hs, ReserveError(st)),
                        ReserveLog(logs[s], st, sp[sl.hs].trace),
                        "product-service", st)
            ELSE /\ spans' = [spans EXCEPT ![s] = sp]
                 /\ slot' = [slot EXCEPT ![s] = [sl EXCEPT !.pc = "resLoad"]]
                 /\ logs' = logs
    /\ UNCHANGED <<gen, stock0, users, products, orders, orderCounter>>

\* A reserve-inventory request with a quantity a shopper asks for.
ReserveReceive(s) ==
    \E p \in ReserveProducts, q \in ReserveQuantities : ReserveRequest(s, p, q)

----------------------------------------------------------------------------
(* user-service: POST /auth/login *)

\* Values of rand.Intn(100) on both sides of the handlers' thresholds.
Draws == {0, 14, 15, 99}

LoginEmails == {"john@example.com", "invalid"}
LoginPasswords == {"password123", "wrong"}

\* The "Find user" loop of loginHandler.
CredentialsMatch(email, password) ==
    \E k \in 1..Len(users) :
        users[k].email = email /\ users[k].password = password

EmailKnown(email) == \E k \in 1..Len(users) : users[k].email = email

\* loginHandler's answer and the line it logs.  [status, level, error]
LoginOutcome(valid, email, password, draw) ==
    IF ~valid
    THEN [status |-> 400, level |-> "error", error |-> "invalid_request"]
    ELSE IF draw < 15
    THEN [status |-> 500, level |-> "error", error |-> "database_connection_failed"]
    ELSE IF ~CredentialsMatch(email, password)
    THEN [status |-> 401, level |-> "warning", error |-> "invalid_credentials"]
    ELSE [status |-> 200, level |-> "info", error |-> ""]

\* A client sends POST /auth/login; loginHandler runs from start to end (it
\* only reads the users table).
LoginHandle(s) ==
    /\ slot[s].pc = "idle"
    /\ \E valid \in BOOLEAN, e \in LoginEmails, pw \in LoginPasswords,
          draw \in Draws, from \in Senders :
        /\ from = "generator" => valid /\ pw = "password123" /\ ~EmailKnown(e)
        /\ ~valid => e = "invalid" /\ pw = "wrong" /\ draw = 99
        /\ LET sp0 == SentSpans(spans[s], s, "login", from)
               sp == Enter(sp0, s, SentHeader(sp0, from), "user-service",
                           "POST /auth/login", "user_login")
               out == LoginOutcome(valid, e, pw, draw)
               sl == [SentSlot(slot[s], sp0, "login", from) EXCEPT
                          !.srv = Len(sp) - 1, !.hs = Len(sp),
                          !.body = [BadBody EXCEPT !.valid = valid],
                          !.email = e, !.password = pw, !.draw = draw]
           IN  Answer(s, sl, SetError(sp, sl.hs, out.error),
                      Append(logs[s], LogLine("user-service", out.level, "login",
                                              sp[sl.hs].trace, out.error)),
                      "user-service", out.status)
    /\ UNCHANGED <<gen, stock0, users, products, orders, orderCounter>>

----------------------------------------------------------------------------
(* user-service: POST /auth/register, GET /users/:id from a client *)

\* A client sends POST /auth/register: ShouldBindJSON, then the "Check if
\* user already exists" loop over the users table as it is now.
RegisterCheck(s) ==
    /\ slot[s].pc = "idle"
    /\ \E valid \in BOOLEAN, e \in {"john@example.com", "new@example.com"} :
        LET from == "absent"
            sp == Enter(spans[s], s, SentHeader(spans[s], from), "user-service",
                        "POST /auth/register", "user_register")
            sl == [SentSlot(slot[s], spans[s], "register", from) EXCEPT
                       !.srv = Len(sp) - 1, !.hs = Len(sp), !.email = e,
                       !.password = "secret",
                       !.body = [BadBody EXCEPT !.valid = valid]]
        IN  IF ~valid
            THEN Answer(s, sl, SetError(sp, sl.hs, "invalid_request"), logs[s],
                        "user-service", 400)
            ELSE IF EmailKnown(e)
            THEN Answer(s, sl, SetError(sp, sl.hs, "user_already_exists"),
                        Append(logs[s], LogLine("user-service", "warning",
                                   "Attempt to register existing user",
                                   sp[sl.hs].trace, "user_already_exists")),
                        "user-service", 409)
            ELSE /\ spans' = [spans EXCEPT ![s] = sp]
                 /\ logs' = logs
                 /\ slot' = [slot EXCEPT ![s] = [sl EXCEPT !.pc = "regBuild"]]
    /\ UNCHANGED <<gen, stock0, users, products, orders, orderCounter>>

\* newUser := User{ID: len(users) + 1, ...}
RegisterBuild(s) ==
    /\ slot[s].pc = "regBuild"
    /\ slot' = [slot EXCEPT ![s].cnt = Len(users) + 1, ![s].pc = "regRead"]
    /\ UNCHANGED <<gen, stock0, users, products, orders, orderCounter, spans, logs>>

\* users = append(users, newUser), the read of the slice.
RegisterAppendRead(s) ==
    /\ slot[s].pc = "regRead"
    /\ slot' = [slot EXCEPT ![s].snap = users, ![s].pc = "regWrite"]
    /\ UNCHANGED <<gen, stock0, users, products, orders, orderCounter, spans, logs>>

\* users = append(users, newUser), the write; then the log line and the 201.
RegisterAppendWrite(s) ==
    /\ slot[s].pc = "regWrite"
    /\ users' = Append(slot[s].snap, [ id |-> slot[s].cnt, email |-> slot[s].email,
                                       password |-> slot[s].password ])
    /\ Answer(s, [slot[s] EXCEPT !.snap = <<>>, !.appended = TRUE], spans[s],
              Append(logs[s], LogLine("user-service", "info",
                                      "User registered successfully",
                                      spans[s][slot[s].hs].trace, "")),
              "user-service", 201)
    /\ UNCHANGED <<gen, stock0, products, orders, orderCounter>>

\* A handler that blanks the password in the users table itself.
UsersAfterGetBlanked(us, k) == [us EXCEPT ![k].password = ""]

\* The users table after getUserHandler found users[k]: user is the range
\* loop's copy, and user.Password = "" is a store into that copy.
UsersAfterGet(us, k) == us

\* c.JSON(http.StatusOK, user) for the copy with its Password blanked: with
\* omitempty the body has no password member.
GetUserBody(u) == [id |-> u.id, email |-> u.email, password |-> ""]

\* A client sends GET /users/:id; the handler runs from start to end.  The
\* same client sends its next request in the same slot.
GetUserHandle(s) ==
    /\ \/ slot[s].pc = "idle"
       \/ slot[s].pc = "done" /\ slot[s].kind = "getuser"
    /\ slot[s].sent < MaxRepeats
    /\ \E idOk \in BOOLEAN, uid \in {1, 7} :
        /\ ~idOk => uid = 7
        /\ LET sl == [IdleSlot EXCEPT !.kind = "getuser", !.sender = "absent",
                                      !.origin = "external", !.oid = uid,
                                      !.sent = slot[s].sent + 1, !.srv = 1, !.hs = 2,
                                      !.body = [BadBody EXCEPT !.valid = idOk]]
               r == GetUserHandler(<<>>, <<>>, s, NoHeader, uid)
               sp == Enter(<<>>, s, NoHeader, "user-service", "GET /users/:id",
                           "get_user")
               found == {k \in 1..Len(users) : users[k].id = uid}
           IN  IF ~idOk
               THEN /\ Answer(s, sl, SetError(sp, sl.hs, "invalid_user_id"), <<>>,
                              "user-service", 400)
                    /\ users' = users
               ELSE /\ spans' = [spans EXCEPT ![s] = r.sp]
                    /\ logs' = [logs EXCEPT ![s] = r.lg]
                    /\ slot' = [slot EXCEPT ![s] =
                           [sl EXCEPT !.pc = "done", !.status = r.status,
                                      !.resp = IF found = {} THEN <<>>
                                               ELSE GetUserBody(users[
                                                      CHOOSE k \in found :
                                                        \A j \in found : k <= j])]]
                    /\ users' = IF found = {} THEN users
                                ELSE UsersAfterGet(users,
                                       CHOOSE k \in found : \A j \in found : k <= j)
    /\ UNCHANGED <<gen, stock0, products, orders, orderCounter>>

UserNext ==
    \E s \in Slots :
        \/ RegisterCheck(s)
        \/ RegisterBuild(s)
        \/ RegisterAppendRead(s)
        \/ RegisterAppendWrite(s)
        \/ GetUserHandle(s)
        \/ LoginHandle(s)

UserSpec == Init /\ [][UserNext]_vars

----------------------------------------------------------------------------
(* user-service: GET /users/:id/favorites, product-service: GET
   /products/favorites/:user_id *)

\* getFavoritesHandler of product-service, from start to end: it answers 200
\* with some products.  [sp, lg, status]
GetFavoritesHandler(sp, lg, s, hdr) ==
    LET sp2 == Enter(sp, s, hdr, "product-service",
                     "GET /products/favorites/:user_id", "get_user_favorites")
        h == Len(sp2)
    IN  [ sp |-> EndSpan(EndSpan(sp2, h), h - 1),
          lg |-> Append(Append(lg, LogLine("product-service", "info",
                                           "User favorites retrieved successfully",
                                           sp2[h].trace, "")),
                        MiddlewareLine("product-service", 200)),
          status |-> 200 ]

\* How the call to product-service ends: answered, httpClient.Do fails, or
\* the body does not decode.
FavoritesNet == {"ok", "fail", "garbled"}

\* getUserFavoritesHandler after strconv.Atoi: the child span
\* call_product_service, the call, the answer.  [sp, lg, status]
FavoritesCall(sp, lg, s, hs, net) ==
    LET sp1 == StartSpan(sp, s, CtxOf(sp, hs), "user-service", "call_product_service")
        c == Len(sp1)
        trace == sp[hs].trace
    IN  IF net = "fail"
        THEN [ sp |-> EndSpan(SetError(sp1, c, "service_call_failed"), c),
               lg |-> Append(lg, LogLine("user-service", "error",
                                         "Failed to call product service", trace,
                                         "product_service_call_failed")),
               status |-> 503 ]
        ELSE LET r == GetFavoritesHandler(sp1, lg, s, Inject(CtxOf(sp1, c)))
             IN  IF r.status # 200
                 THEN [ sp |-> EndSpan(r.sp, c),
                        lg |-> Append(r.lg, LogLine("user-service", "warning",
                                          "Product service returned non-200 status",
                                          trace, "")),
                        status |-> 503 ]
                 ELSE IF net = "garbled"
                 THEN [ sp |-> EndSpan(SetError(r.sp, c, "response_decode_failed"), c),
                        lg |-> r.lg, status |-> 500 ]
                 ELSE [ sp |-> EndSpan(r.sp, c),
                        lg |-> Append(r.lg, LogLine("user-service", "info",
                                          "User favorites retrieved successfully",
                                          trace, "")),
                        status |-> 200 ]

\* A client sends GET /users/:id/favorites; idOk = FALSE is an id strconv.Atoi
\* rejects.
FavoritesHandle(s) ==
    /\ slot[s].pc = "idle"
    /\ \E idOk \in BOOLEAN, net \in FavoritesNet, from \in Senders :
        /\ from = "generator" => idOk
        /\ ~idOk => net = "ok"
        /\ LET sp0 == SentSpans(spans[s], s, "favorites", from)
               sp == Enter(sp0, s, SentHeader(sp0, from), "user-service",
                           "GET /users/:id/favorites", "get_user_favorites")
               sl == [SentSlot(slot[s], sp0, "favorites", from) EXCEPT
                          !.srv = Len(sp) - 1, !.hs = Len(sp),
                          !.netErr = (idOk /\ net = "fail"),
                          !.body = [BadBody EXCEPT !.valid = idOk], !.net = net]
           IN  IF ~idOk
               THEN Answer(s, sl, SetError(sp, sl.hs, "invalid_user_id"), logs[s],
                           "user-service", 400)
               ELSE LET r == FavoritesCall(sp, logs[s], s, sl.hs, net)
                    IN  Answer(s, sl, r.sp, r.lg, "user-service", r.status)
    /\ UNCHANGED <<gen, stock0, users, products, orders, orderCounter>>

\* A client that waits sends GET /users/:id/favorites and product-service
\* never answers getUserFavoritesHandler's call (httpClient has no Timeout).
FavoritesPeerHangs(s) ==
    /\ slot[s].pc = "idle"
    /\ LET from == "absent"
           sp == Enter(spans[s], s, SentHeader(spans[s], from), "user-service",
                       "GET /users/:id/favorites", "get_user_favorites")
           sp1 == StartSpan(sp, s, CtxOf(sp, Len(sp)), "user-service",
                            "call_product_service")
       IN  /\ spans' = [spans EXCEPT ![s] = sp1]
           /\ slot' = [slot EXCEPT ![s] =
                  [SentSlot(slot[s], spans[s], "favorites", from) EXCEPT
                       !.srv = Len(sp) - 1, !.hs = Len(sp), !.cs = Len(sp1),
                       !.pc = "hung"]]
    /\ UNCHANGED <<gen, stock0, users, products, orders, orderCounter, logs>>

----------------------------------------------------------------------------
(* product-service: POST /products/:id/view *)

\* Values of rand.Intn(100) on both sides of recordProductViewHandler's
\* threshold.
ViewDraws == {0, 4, 5, 99}

\* A handler that answers the failure of the analytics service as a failure.
RecordViewOutcomePropagating(idOk, draw) ==
    IF ~idOk THEN [status |-> 400, level |-> "", error |-> "invalid_product_id"]
    ELSE IF draw < 5
    THEN [status |-> 503, level |-> "error", error |-> "analytics_service_down"]
    ELSE [status |-> 200, level |-> "info", error |-> ""]

\* recordProductViewHandler's answer, the level of the line it logs (none for
\* an id that is no number) and the error attribute of its span.  The id is
\* not looked up in the products table.
RecordViewOutcome(idOk, draw) ==
    IF ~idOk THEN [status |-> 400, level |-> "", error |-> "invalid_product_id"]
    ELSE IF draw < 5
    THEN [status |-> 202, level |-> "error", error |-> "analytics_service_down"]
    ELSE [status |-> 200, level |-> "info", error |-> ""]

\* A client sends POST /products/:id/view; the handler runs from start to
\* end.
RecordViewHandle(s) ==
    /\ slot[s].pc = "idle"
    /\ \E idOk \in BOOLEAN, p \in ReserveProducts, draw \in ViewDraws :
        /\ ~idOk => draw = 99
        /\ LET from == "absent"
               sp == Enter(spans[s], s, SentHeader(spans[s], from), "product-service",
                           "POST /products/:id/view", "record_product_view")
               out == RecordViewOutcome(idOk, draw)
               sl == [SentSlot(slot[s], spans[s], "view", from) EXCEPT
                          !.srv = Len(sp) - 1, !.hs = Len(sp), !.pid = p,
                          !.body = [BadBody EXCEPT !.valid = idOk], !.draw = draw]
               lg == IF idOk
                     THEN Append(logs[s], LogLine("product-service", out.level,
                                                  "product view", sp[sl.hs].trace,
                                                  out.error))
                     ELSE logs[s]
           IN  Answer(s, sl, SetError(sp, sl.hs, out.error), lg,
                      "product-service", out.status)
    /\ UNCHANGED <<gen, stock0, users, products, orders, orderCounter>>

----------------------------------------------------------------------------
(* product-service: the inventory and price endpoints, any quantity *)

\* request.Quantity is an int that ShouldBindJSON takes as sent: negative,
\* zero or positive.
AnyQuantities == {-2, -1, 0, 1, 2}

\* A release that leaves the stock as it is.
ReleasedNothing(stock, q) == stock

\* products[i].Stock += request.Quantity, the value written.
Released(stock, q) == stock + q

\* A client sends POST /inventory/:id/release: Atoi, ShouldBindJSON, the
\* search of the product; nothing is checked about the quantity.
ReleaseReceive(s) ==
    /\ slot[s].pc = "idle"
    /\ \E idOk \in BOOLEAN, bodyOk \in BOOLEAN, p \in ReserveProducts,
          q \in AnyQuantities :
        /\ ~idOk => bodyOk
        /\ ~(idOk /\ bodyOk) => (p = 1 /\ q = 1)
        /\ LET from == "absent"
               sp == Enter(spans[s], s, SentHeader(spans[s], from), "product-service",
                           "POST /inventory/:id/release", "release_inventory")
               sl == [SentSlot(slot[s], spans[s], "release", from) EXCEPT
                          !.srv = Len(sp) - 1, !.hs = Len(sp), !.pid = p, !.qty = q,
                          !.body = [BadBody EXCEPT !.valid = idOk /\ bodyOk],
                          !.prior = {u \in Slots : slot[u].pc = "done"}]
           IN  IF ~idOk
               THEN Answer(s, sl, SetError(sp, sl.hs, "invalid_product_id"), logs[s],
                           "product-service", 400)
               ELSE IF ~bodyOk
               THEN Answer(s, sl, SetError(sp, sl.hs, "invalid_request"), logs[s],
                           "product-service", 400)
               ELSE IF p \notin DOMAIN products
               THEN Answer(s, sl, SetError(sp, sl.hs, "product_not_found"), logs[s],
                           "product-service", 404)
               ELSE /\ spans' = [spans EXCEPT ![s] = sp]
                    /\ logs' = logs
                    /\ slot' = [slot EXCEPT ![s] = [sl EXCEPT !.pc = "relLoad"]]
    /\ UNCHANGED <<gen, stock0, users, products, orders, orderCounter>>

\* products[i].Stock += request.Quantity, the read.
ReleaseLoad(s) ==
    /\ slot[s].pc = "relLoad"
    /\ slot' = [slot EXCEPT ![s].ld = products[slot[s].pid].stock,
                            ![s].pc = "relStore"]
    /\ UNCHANGED <<gen, stock0, users, products, orders, orderCounter, spans, logs>>

\* products[i].Stock += request.Quantity, the write; then the log line and
\* the 200.
ReleaseStore(s) ==
    /\ slot[s].pc = "relStore"
    /\ products' = [products EXCEPT
                       ![slot[s].pid].stock = Released(slot[s].ld, slot[s].qty)]
    /\ Answer(s, [slot[s] EXCEPT !.wrote = TRUE], spans[s],
              Append(logs[s], LogLine("product-service", "info",
                                      "Inventory released successfully",
                                      spans[s][slot[s].hs].trace, "")),
              "product-service", 200)
    /\ UNCHANGED <<gen, stock0, users, orders, orderCounter>>

\* A refusal that comes after the price was written.
RefusedAfterWrite(prods, pid, price) ==
    IF pid \in DOMAIN prods THEN [prods EXCEPT ![pid].price = price] ELSE prods

\* The products table after updateProductPriceHandler refused a request:
\* every return before the "Update product price" loop, and the 404 after
\* it, has written nothing.
Refused(prods, pid, price) == prods

\* updateProductPriceHandler's status and the error attribute of its span:
\* Atoi, ShouldBindJSON, the simulated pricing validation, the search of the
\* product.
PriceOutcome(idOk, bodyOk, draw, pid) ==
    IF ~idOk THEN [status |-> 400, error |-> "invalid_product_id"]
    ELSE IF ~bodyOk THEN [status |-> 400, error |-> "invalid_request"]
    ELSE IF draw < 10 THEN [status |-> 422, error |-> "pricing_validation_failed"]
    ELSE IF pid \in DOMAIN products THEN [status |-> 200, error |-> ""]
    ELSE [status |-> 404, error |-> "product_not_found"]

\* A client sends PUT /products/:id/price; the handler runs from start to
\* end (products[i].Price = request.Price is a single write).  Prices are in
\* cents; the draws are values of rand.Intn(100) on both sides of the
\* handler's threshold.
PriceHandle(s) ==
    /\ slot[s].pc = "idle"
    /\ \E idOk \in BOOLEAN, bodyOk \in BOOLEAN, p \in ReserveProducts,
          price \in {0, 99999}, draw \in {0, 9, 10, 99} :
        /\ ~idOk => bodyOk
        /\ ~(idOk /\ bodyOk) => (p = 1 /\ price = 0 /\ draw = 99)
        /\ LET from == "absent"
               sp == Enter(spans[s], s, SentHeader(spans[s], from), "product-service",
                           "PUT /products/:id/price", "update_product_price")
               out == PriceOutcome(idOk, bodyOk, draw, p)
               st == out.status
               sl == [SentSlot(slot[s], spans[s], "price", from) EXCEPT
                          !.srv = Len(sp) - 1, !.hs = Len(sp), !.pid = p,
                          !.price = price, !.draw = draw, !.wrote = (st = 200),
                          !.body = [BadBody EXCEPT !.valid = idOk /\ bodyOk]]
               lg == IF st = 422
                     THEN Append(logs[s], LogLine("product-service", "error",
                                     "Price update failed - pricing policy violation",
                                     sp[sl.hs].trace, "pricing_policy_violation"))
                     ELSE IF st = 200
                     THEN Append(logs[s], LogLine("product-service", "info",
                                     "Product price updated successfully",
                                     sp[sl.hs].trace, ""))
                     ELSE logs[s]
           IN  /\ products' = IF st = 200
                              THEN [products EXCEPT ![p].price = price]
                              ELSE Refused(products, p, price)
               /\ Answer(s, sl, SetError(sp, sl.hs, out.error), lg,
                         "product-service", st)
    /\ UNCHANGED <<gen, stock0, users, orders, orderCounter>>

\* A client sends a request to a read endpoint, here with the statuses the
\* endpoint answers; the handler runs from start to end.  None of these
\* handlers assigns to products.
CatalogRead(s) ==
    /\ slot[s].pc = "idle"
    /\ \E a \in { <<"GET /products", 200>>, <<"GET /products", 500>>,
                  <<"GET /products/:id", 400>>, <<"GET /products/:id", 404>>,
                  <<"GET /products/search", 200>>,
                  <<"GET /products/favorites/:user_id", 400>>,
                  <<"GET /inventory/:id", 400>>, <<"GET /inventory/:id", 404>>,
                  <<"GET /products/trending", 503>>,
                  <<"GET /products/category/:category", 500>>,
                  <<"POST /products/:id/view", 400>> } :
        LET from == "absent"
            sp == Enter(spans[s], s, SentHeader(spans[s], from), "product-service",
                        a[1], "read")
            sl == [SentSlot(slot[s], spans[s], "read", from) EXCEPT
                       !.srv = Len(sp) - 1, !.hs = Len(sp), !.endpoint = a[1]]
        IN  Answer(s, sl, sp, logs[s], "product-service", a[2])
    /\ UNCHANGED <<gen, stock0, users, products, orders, orderCounter>>

StockNext ==
    \E s \in Slots :
        \/ \E p \in ReserveProducts, q \in AnyQuantities : ReserveRequest(s, p, q)
        \/ ReserveLoad(s)
        \/ ReserveStore(s)
        \/ ReleaseReceive(s)
        \/ ReleaseLoad(s)
        \/ ReleaseStore(s)
        \/ PriceHandle(s)
        \/ CatalogRead(s)

StockSpec == Init /\ [][StockNext]_vars

----------------------------------------------------------------------------
(* order-service: POST /payments/:id *)

\* Order ids asked for: in the table or not.
PayOrderIds == {1, 2, 9}

\* Values of rand.Intn(100) on both sides of processPaymentHandler's
\* threshold.
PayDraws == {0, 14, 15, 99}

\* Values of time.Now().Unix() when the payment record is made.
PayTimes == {1, 2}

\* fmt.Sprintf("PAY-%d-%d", orderID, time.Now().Unix())
PaymentId(oid, t) == "PAY-" \o ToString(oid) \o "-" \o ToString(t)

\* for i, o := range orders { if o.ID == orderID { order = &orders[i]; break } }
\* The index of the first order with this id, 0 for none.
FindOrder(oid) ==
    IF \E k \in 1..Len(orders) : orders[k].id = oid
    THEN CHOOSE k \in 1..Len(orders) :
            /\ orders[k].id = oid
            /\ \A j \in 1..(k - 1) : orders[j].id # oid
    ELSE 0

\* order points into the array orders has now: the slice was not moved to a
\* new backing array since the pointer was taken.  Arrays are told apart by
\* their capacity.
PointsIntoTable(sl) == Cap(Len(orders)) = sl.arr /\ sl.ptr <= Len(orders)

\* order.PaymentID = payment.ID: through the pointer, into the array it was
\* taken from.
StorePaymentId(sl) ==
    IF PointsIntoTable(sl)
    THEN [orders EXCEPT ![sl.ptr].payment_id = sl.payId]
    ELSE orders

\* order.Status = "paid"
StorePaid(sl) ==
    IF PointsIntoTable(sl)
    THEN [orders EXCEPT ![sl.ptr].status = "paid"]
    ELSE orders

\* A client sends POST /payments/:id: Atoi, ShouldBindJSON, the search of the
\* order; a found order leaves the handler in its time.Sleep.
PayReceive(s) ==
    /\ slot[s].pc = "idle"
    /\ \E idOk \in BOOLEAN, bodyOk \in BOOLEAN, oid \in PayOrderIds :
        /\ ~idOk => bodyOk
        /\ LET from == "absent"
               sp == Enter(spans[s], s, SentHeader(spans[s], from), "order-service",
                           "POST /payments/:id", "process_payment")
               i == FindOrder(oid)
               sl == [SentSlot(slot[s], spans[s], "pay", from) EXCEPT
                          !.srv = Len(sp) - 1, !.hs = Len(sp), !.oid = oid,
                          !.body = [BadBody EXCEPT !.valid = idOk /\ bodyOk]]
           IN  IF ~idOk
               THEN Answer(s, sl, SetError(sp, sl.hs, "invalid_order_id"), logs[s],
                           "order-service", 400)
               ELSE IF ~bodyOk
               THEN Answer(s, sl, SetError(sp, sl.hs, "invalid_request"), logs[s],
                           "order-service", 400)
               ELSE IF i = 0
               THEN Answer(s, sl, SetError(sp, sl.hs, "order_not_found"), logs[s],
                           "order-service", 404)
               ELSE /\ spans' = [spans EXCEPT ![s] = sp]
                    /\ logs' = logs
                    /\ slot' = [slot EXCEPT ![s] =
                           [sl EXCEPT !.ptr = i, !.arr = Cap(Len(orders)),
                                      !.pc = "paying"]]
    /\ UNCHANGED <<gen, stock0, users, products, orders, orderCounter>>

\* The sleep is over: the simulated decline, or the payment record and the
\* first store into the order.
PayDecide(s) ==
    /\ slot[s].pc = "paying"
    /\ \E draw \in PayDraws, t \in PayTimes :
        LET sl == [slot[s] EXCEPT !.draw = draw,
                                  !.payId = IF draw < 15 THEN ""
                                            ELSE PaymentId(slot[s].oid, t)]
        IN  IF draw < 15
            THEN /\ Answer(s, sl, SetError(spans[s], sl.hs, "payment_failed"),
                           Append(logs[s], LogLine("order-service", "error",
                                      "Payment processing failed",
                                      spans[s][sl.hs].trace,
                                      "payment_gateway_declined")),
                           "order-service", 402)
                 /\ orders' = orders
            ELSE /\ orders' = StorePaymentId(sl)
                 /\ slot' = [slot EXCEPT ![s] = [sl EXCEPT !.pc = "payStatus"]]
                 /\ UNCHANGED <<spans, logs>>
    /\ UNCHANGED <<gen, stock0, users, products, orderCounter>>

\* order.Status = "paid", the log line and the 200 with the payment.
PayStore(s) ==
    /\ slot[s].pc = "payStatus"
    /\ orders' = StorePaid(slot[s])
    /\ Answer(s, slot[s], spans[s],
              Append(logs[s], LogLine("order-service", "info",
                                      "Payment processed successfully",
                                      spans[s][slot[s].hs].trace, "")),
              "order-service", 200)
    /\ UNCHANGED <<gen, stock0, users, products, orderCounter>>

----------------------------------------------------------------------------
(* order-service: POST /orders/:id/cancel, PUT /orders/:id/status *)

\* A client sends POST /orders/:id/cancel; the handler runs from start to
\* end: Atoi, the simulated policy failure, then the search and
\* orders[i].Status = "cancelled".
CancelHandle(s) ==
    /\ slot[s].pc = "idle"
    /\ \E idOk \in BOOLEAN, oid \in PayOrderIds, draw \in PayDraws :
        LET from == "absent"
            sp == Enter(spans[s], s, SentHeader(spans[s], from), "order-service",
                        "POST /orders/:id/cancel", "cancel_order")
            i == FindOrder(oid)
            sl == [SentSlot(slot[s], spans[s], "cancel", from) EXCEPT
                       !.srv = Len(sp) - 1, !.hs = Len(sp), !.oid = oid,
                       !.draw = draw, !.ptr = i,
                       !.body = [BadBody EXCEPT !.valid = idOk]]
        IN  IF ~idOk
            THEN /\ Answer(s, sl, SetError(sp, sl.hs, "invalid_order_id"), logs[s],
                           "order-service", 400)
                 /\ orders' = orders
            ELSE IF draw < 15
            THEN /\ Answer(s, sl, SetError(sp, sl.hs, "cancellation_not_allowed"),
                           Append(logs[s], LogLine("order-service", "error",
                               "Order cancellation failed - order already shipped",
                               sp[sl.hs].trace, "order_already_shipped")),
                           "order-service", 409)
                 /\ orders' = orders
            ELSE IF i = 0
            THEN /\ Answer(s, sl, SetError(sp, sl.hs, "order_not_found"), logs[s],
                           "order-service", 404)
                 /\ orders' = orders
            ELSE /\ Answer(s, sl, sp,
                           Append(logs[s], LogLine("order-service", "info",
                               "Order cancelled successfully", sp[sl.hs].trace, "")),
                           "order-service", 200)
                 /\ orders' = [orders EXCEPT ![i].status = "cancelled"]
    /\ UNCHANGED <<gen, stock0, users, products, orderCounter>>

\* A client sends PUT /orders/:id/status; the handler runs from start to end:
\* Atoi, ShouldBindJSON into a struct with one untagged string (a body
\* without "status" binds as ""), then the search and
\* orders[i].Status = request.Status.
UpdateStatusHandle(s) ==
    /\ slot[s].pc = "idle"
    /\ \E idOk \in BOOLEAN, bodyOk \in BOOLEAN, oid \in PayOrderIds,
          st \in {"shipped", "cancelled", ""} :
        /\ ~idOk => bodyOk
        /\ LET from == "absent"
               sp == Enter(spans[s], s, SentHeader(spans[s], from), "order-service",
                           "PUT /orders/:id/status", "update_order_status")
               i == FindOrder(oid)
               sl == [SentSlot(slot[s], spans[s], "status", from) EXCEPT
                          !.srv = Len(sp) - 1, !.hs = Len(sp), !.oid = oid,
                          !.ptr = i, !.endpoint = st,
                          !.body = [BadBody EXCEPT !.valid = idOk /\ bodyOk]]
           IN  IF ~idOk
               THEN /\ Answer(s, sl, SetError(sp, sl.hs, "invalid_order_id"),
                              logs[s], "order-service", 400)
                    /\ orders' = orders
               ELSE IF ~bodyOk
               THEN /\ Answer(s, sl, SetError(sp, sl.hs, "invalid_request"),
                              logs[s], "order-service", 400)
                    /\ orders' = orders
               ELSE IF i = 0
               THEN /\ Answer(s, sl, SetError(sp, sl.hs, "order_not_found"),
                              logs[s], "order-service", 404)
                    /\ orders' = orders
               ELSE /\ Answer(s, sl, sp,
                              Append(logs[s], LogLine("order-service", "info",
                                  "Order status updated successfully",
                                  sp[sl.hs].trace, "")),
                              "order-service", 200)
                    /\ orders' = [orders EXCEPT ![i].status = st]
    /\ UNCHANGED <<gen, stock0, users, products, orderCounter>>

----------------------------------------------------------------------------
(* app1: /health, /data, /slow behind otelhttp.NewHandler *)

App1Endpoints == {"/health", "/data", "/slow"}

\* Outcomes of rand.Float32() < 0.1 in dataHandler.
App1Fails == {TRUE, FALSE}

\* setupTracing sets no propagator, so otelhttp.NewHandler extracts nothing:
\* the server span is always a root.
App1Enter(sp, s) == StartSpan(sp, s, NoCtx, "app1", "app1")

\* httpRequestsTotal.WithLabelValues(method, endpoint, code).Inc() counted twice.
CountRequestTwice(inc, code) == Append(Append(inc, code), code)

\* httpRequestsTotal.WithLabelValues(method, endpoint, code).Inc(): inc lists
\* the status_code labels of the increments one request made.
CountRequest(inc, code) == Append(inc, code)

\* httpDuration.WithLabelValues(method, endpoint).Observe(...): obs counts the
\* observations one request made.
Observe(obs) == obs + 1

\* dataHandler whose error path returns without processSpan.End().
DataHandlerLeak(sp, lg, s, srv, fail) ==
    LET trace == sp[srv].trace
        sp1 == StartSpan(sp, s, CtxOf(sp, srv), "app1", "process_data")
        p == Len(sp1)
        lg1 == Append(lg, LogLine("app1", "info", "Processing data request", trace, ""))
    IN  IF fail
        THEN [ sp |-> sp1,
               lg |-> Append(lg1, LogLine("app1", "error",
                          "Random error occurred during data processing", trace, "")),
               status |-> 500, inc |-> CountRequest(<<>>, 500), obs |-> 0 ]
        ELSE LET sp2 == StartSpan(EndSpan(sp1, p), s, CtxOf(sp1, p), "app1",
                                  "external_call")
             IN  [ sp |-> EndSpan(sp2, Len(sp2)), lg |-> lg1, status |-> 200,
                   inc |-> CountRequest(<<>>, 200), obs |-> Observe(0) ]

\* dataHandler after the server span srv was started.  [sp, lg, status]
DataHandler(sp, lg, s, srv, fail) ==
    LET trace == sp[srv].trace
        sp1 == StartSpan(sp, s, CtxOf(sp, srv), "app1", "process_data")
        p == Len(sp1)
        lg1 == Append(lg, LogLine("app1", "info", "Processing data request", trace, ""))
    IN  IF fail
        THEN [ sp |-> EndSpan(sp1, p),
               lg |-> Append(lg1, LogLine("app1", "error",
                          "Random error occurred during data processing", trace, "")),
               status |-> 500, inc |-> CountRequest(<<>>, 500), obs |-> 0 ]
        ELSE LET sp2 == StartSpan(EndSpan(sp1, p), s, CtxOf(sp1, p), "app1",
                                  "external_call")
             IN  [ sp |-> EndSpan(sp2, Len(sp2)), lg |-> lg1, status |-> 200,
                   inc |-> CountRequest(<<>>, 200), obs |-> Observe(0) ]

\* slowHandler.  [sp, lg, status]
SlowHandler(sp, lg, s, srv) ==
    LET sp1 == StartSpan(sp, s, CtxOf(sp, srv), "app1", "slow_operation")
    IN  [ sp |-> EndSpan(sp1, Len(sp1)),
          lg |-> Append(lg, LogLine("app1", "info", "Slow endpoint called",
                                    sp[srv].trace, "")),
          status |-> 200, inc |-> CountRequest(<<>>, 200), obs |-> Observe(0) ]

\* healthHandler.  [sp, lg, status]
App1HealthHandler(sp, lg, s, srv) ==
    [ sp |-> sp,
      lg |-> Append(lg, LogLine("app1", "info", "Health check requested",
                                sp[srv].trace, "")),
      status |-> 200, inc |-> CountRequest(<<>>, 200), obs |-> Observe(0) ]

\* A client sends a request to app1; the handler runs from start to end, then
\* otelhttp ends the server span.
App1Handle(s) ==
    /\ slot[s].pc = "idle"
    /\ \E ep \in App1Endpoints, fail \in App1Fails :
        /\ fail => ep = "/data"
        /\ LET sp == App1Enter(spans[s], s)
               srv == Len(sp)
               r == IF ep = "/data" THEN DataHandler(sp, logs[s], s, srv, fail)
                    ELSE IF ep = "/slow" THEN SlowHandler(sp, logs[s], s, srv)
                    ELSE App1HealthHandler(sp, logs[s], s, srv)
           IN  /\ spans' = [spans EXCEPT ![s] = EndSpan(r.sp, srv)]
               /\ logs' = [logs EXCEPT ![s] = r.lg]
               /\ slot' = [slot EXCEPT ![s] =
                      [@ EXCEPT !.pc = "done", !.kind = "app1", !.origin = "external",
                                !.endpoint = ep, !.srv = srv, !.status = r.status,
                                !.inc = r.inc, !.obs = r.obs]]
    /\ UNCHANGED <<gen, stock0, users, products, orders, orderCounter>>

----------------

Next ==
    \E s \in Slots :
        \/ OrderReceive(s)
        \/ OrderValidate(s)
        \/ OrderLookup(s)
        \/ OrderReserve(s)
        \/ ReserveLoad(s)
        \/ ReserveStore(s)
        \/ OrderBuild(s)
        \/ OrderAppendRead(s)
        \/ OrderAppendWrite(s)
        \/ OrderCounterLoad(s)
        \/ OrderCounterStore(s)
        \/ ReserveReceive(s)
        \/ OrderPeerHangs(s)
        \/ FavoritesPeerHangs(s)
        \/ LoginHandle(s)
        \/ FavoritesHandle(s)
        \/ RecordViewHandle(s)
        \/ App1Handle(s)

Spec == Init /\ [][Next]_vars

\* One request on its own, from its arrival on.
SoloNext ==
    \E s \in {"a"} :
        \/ OrderReceive(s)
        \/ OrderValidate(s)
        \/ OrderLookup(s)
        \/ OrderReserve(s)
        \/ ReserveLoad(s)
        \/ ReserveStore(s)
        \/ OrderBuild(s)
        \/ OrderAppendRead(s)
        \/ OrderAppendWrite(s)
        \/ OrderCounterLoad(s)
        \/ OrderCounterStore(s)
        \/ ReserveReceive(s)
        \/ OrderPeerHangs(s)
        \/ FavoritesPeerHangs(s)
        \/ LoginHandle(s)
        \/ FavoritesHandle(s)
        \/ RecordViewHandle(s)
        \/ App1Handle(s)

\* The goroutine of the request takes every step it can take.
SpecLive == Init /\ [][SoloNext]_vars /\ WF_vars(SoloNext)

----------------
(* Payments while orders are created *)

\* Numbers of orders in the table when the requests followed arrive: with 1
\* the next append moves the slice, with 3 it writes in place.
EarlierCounts == {1, 3}

\* The table after n create-order requests with no items, one after the
\* other.
EarlierOrders(n) ==
    [k \in 1..n |-> [ id |-> k, user_id |-> 1, items |-> <<>>,
                      status |-> "pending", total |-> 0, payment_id |-> "" ]]

PayInit ==
    /\ users = InitUsers
    /\ products \in StockTables
    /\ stock0 = [p \in ProductIds |-> products[p].stock]
    /\ \E n \in EarlierCounts :
          /\ orders = EarlierOrders(n)
          /\ orderCounter = n + 1
    /\ slot = [s \in Slots |-> IdleSlot]
    /\ spans = [s \in Slots |-> <<>>]
    /\ logs = [s \in Slots |-> <<>>]
    /\ gen = GenStart

PayNext ==
    \E s \in Slots :
        \/ PayReceive(s)
        \/ PayDecide(s)
        \/ PayStore(s)
        \/ OrderReceive(s)
        \/ OrderValidate(s)
        \/ OrderLookup(s)
        \/ OrderReserve(s)
        \/ ReserveLoad(s)
        \/ ReserveStore(s)
        \/ OrderBuild(s)
        \/ OrderAppendRead(s)
        \/ OrderAppendWrite(s)
        \/ OrderCounterLoad(s)
        \/ OrderCounterStore(s)

PaySpec == PayInit /\ [][PayNext]_vars

\* The requests that write the status of an order already in the table.
StatusNext ==
    \E s \in Slots :
        \/ CancelHandle(s)
        \/ UpdateStatusHandle(s)
        \/ PayReceive(s)
        \/ PayDecide(s)
        \/ PayStore(s)

StatusSpec == PayInit /\ [][StatusNext]_vars

----------------------------------------------------------------------------
(* The traffic generator: startup and scenario loops *)

\* What http.Get returns from a node's /health: a node still starting refuses
\* the connection or answers something else than 200.
PollOutcomes(st) == IF st = "up" THEN {"200"} ELSE {"error", "non200"}

\* A poll that would let waitForServices go on after any response.
PollAnyResponse(out) == out # "error"

\* waitForServices: err == nil && resp.StatusCode == http.StatusOK
PollOk(out) == out = "200"

\* A node comes up.
NodeUp(n) ==
    /\ gen.status[n] = "starting"
    /\ gen' = [gen EXCEPT !.status[n] = "up"]
    /\ UNCHANGED mesh

\* One node stops answering while the loops run: its requests fail at once
\* or hang.
NodeDown(n) ==
    /\ gen.phase = "running" /\ gen.down = "none"
    /\ \E mode \in {"failing", "hanging"} :
        gen' = [gen EXCEPT !.status[n] = mode, !.down = n]
    /\ UNCHANGED mesh

\* One round of waitForServices' inner loop on service w: http.Get, then
\* break to the next service, or time.Sleep and poll again.  After the last
\* service main starts the loops.
WaitForServices ==
    /\ gen.phase = "waiting"
    /\ \E out \in PollOutcomes(gen.status[Services[gen.w]]) :
        LET seen == IF out = "200" THEN gen.ok200 \cup {Services[gen.w]}
                    ELSE gen.ok200
        IN  IF PollOk(out)
            THEN gen' = [gen EXCEPT !.ok200 = seen,
                                    !.w = IF gen.w = 3 THEN 1 ELSE gen.w + 1,
                                    !.phase = IF gen.w = 3 THEN "running" ELSE "waiting"]
            ELSE /\ gen.polls < MaxPolls
                 /\ gen' = [gen EXCEPT !.ok200 = seen, !.polls = @ + 1]
    /\ UNCHANGED mesh

\* makeRequest does not return before the client's timeout: the node called
\* hangs, or it waits for a peer that hangs (the services' own clients have
\* no timeout).
Hangs(call) ==
    \/ gen.status[call.to] = "hanging"
    \/ gen.status[call.to] = "up" /\ \E n \in call.via : gen.status[n] = "hanging"

\* A second passes; the ticker of every loop due at the new time puts a tick
\* in its channel (capacity 1: a tick not yet taken is not doubled).  Time
\* stands still while a loop can take a step.
Advance ==
    /\ gen.phase = "running" /\ gen.now < MaxTime
    /\ \A l \in Loops :
        /\ gen.loop[l].pc # "calling"
        /\ gen.loop[l].pc = "idle" => ~gen.loop[l].pending
        /\ gen.loop[l].pc = "blocked" => gen.now < gen.loop[l].until
    /\ gen' = [gen EXCEPT
                 !.now = @ + 1,
                 !.loop = [l \in Loops |->
                             IF (gen.now + 1) % Interval(l) = 0
                             THEN [gen.loop[l] EXCEPT !.pending = TRUE]
                             ELSE gen.loop[l]]]
    /\ UNCHANGED mesh

\* The span of one call of a scenario: the helper's tracer.Start(ctx, ...)
\* (in generateHealthChecks the client span of the otelhttp transport), a
\* child of the tick's span, which is the first of the loop's spans.
CallSpan(lp) ==
    StartSpan(lp.sp, "call", CtxOf(lp.sp, 1), "traffic-generator", Head(lp.calls).to)

\* A loop body that ends the tick's span as soon as the first call returned.
AfterCallEndingRoot(lp) ==
    [lp EXCEPT !.calls = Tail(@), !.until = 0,
               !.sp = EndSpan(EndSpan(@, Len(@)), 1),
               !.pc = IF Len(lp.calls) = 1 THEN "idle" ELSE "calling"]

\* The loop after the call at the head of its scenario returned: the
\* helper's deferred span.End(), and after the last call the loop body's
\* span.End().
AfterCall(lp) ==
    [lp EXCEPT !.calls = Tail(@), !.until = 0,
               !.sp = IF Len(lp.calls) = 1
                      THEN EndSpan(EndSpan(@, Len(@)), 1)
                      ELSE EndSpan(@, Len(@)),
               !.pc = IF Len(lp.calls) = 1 THEN "idle" ELSE "calling"]

\* makeRequest with an httpClient that has no Timeout: a pending request
\* stays pending.
MakeRequestNoTimeout(lp) ==
    IF Hangs(Head(lp.calls))
    THEN [lp EXCEPT !.pc = "blocked", !.until = 0 - 1, !.sp = CallSpan(lp)]
    ELSE AfterCall([lp EXCEPT !.sp = CallSpan(lp)])

\* makeRequest for the call at the head of the scenario of loop record lp:
\* answered or refused at once, or pending until the client's timeout.
MakeRequest(lp) ==
    IF Hangs(Head(lp.calls))
    THEN [lp EXCEPT !.pc = "blocked", !.until = (gen.now + Timeout) % Period,
                    !.sp = CallSpan(lp)]
    ELSE AfterCall([lp EXCEPT !.sp = CallSpan(lp)])

\* tracer.Start(context.Background(), "<x>_workflow") of loop l's tick
\* number n: a new root, whose trace id the SDK generates.
TickSpan(l, n) == StartSpan(<<>>, <<l, n>>, NoCtx, "traffic-generator", l)

\* A ticker that runs each tick's body on a goroutine of its own: a tick is
\* taken while the previous scenario still waits for its answer.
LoopTickSpawning(l) ==
    /\ gen.phase = "running"
    /\ gen.loop[l].pc \in {"idle", "blocked"} /\ gen.loop[l].pending
    /\ \E sc \in Scenarios(l) :
        LET n == IF gen.count THEN gen.loop[l].runs + 1 ELSE gen.loop[l].runs
            root == TickSpan(l, n)
        IN  gen' = [gen EXCEPT
                      !.sent = TRUE,
                      !.loop[l] = MakeRequest([@ EXCEPT
                                      !.pending = FALSE, !.runs = n, !.calls = sc,
                                      !.sp = root,
                                      !.used = IF gen.count
                                               THEN @ \cup {root[1].trace} ELSE @])]
    /\ UNCHANGED mesh

\* for range time.Tick(...): the loop takes its tick, starts the tick's span,
\* draws a scenario and sends its first request.
LoopTick(l) ==
    /\ gen.phase = "running"
    /\ gen.loop[l].pc = "idle" /\ gen.loop[l].pending
    /\ \E sc \in Scenarios(l) :
        LET n == IF gen.count THEN gen.loop[l].runs + 1 ELSE gen.loop[l].runs
            root == TickSpan(l, n)
        IN  gen' = [gen EXCEPT
                      !.sent = TRUE,
                      !.loop[l] = MakeRequest([@ EXCEPT
                                      !.pending = FALSE, !.runs = n, !.calls = sc,
                                      !.sp = root,
                                      !.used = IF gen.count
                                               THEN @ \cup {root[1].trace} ELSE @])]
    /\ UNCHANGED mesh

\* The next request of the scenario.
LoopCall(l) ==
    /\ gen.loop[l].pc = "calling"
    /\ gen' = [gen EXCEPT !.loop[l] = MakeRequest(@)]
    /\ UNCHANGED mesh

\* httpClient gives up on the pending request: makeRequest returns the error.
LoopTimeout(l) ==
    /\ gen.loop[l].pc = "blocked" /\ gen.now = gen.loop[l].until
    /\ gen' = [gen EXCEPT !.loop[l] = AfterCall([@ EXCEPT !.timedOut = TRUE])]
    /\ UNCHANGED mesh

GenNext ==
    \/ \E n \in Nodes : NodeUp(n)
    \/ \E n \in Nodes : NodeDown(n)
    \/ WaitForServices
    \/ Advance
    \/ \E l \in Loops : LoopTick(l)
    \/ \E l \in Loops : LoopCall(l)
    \/ \E l \in Loops : LoopTimeout(l)

GenInit ==
    /\ users = InitUsers
    /\ products = [p \in ProductIds |-> [price |-> PriceOf(p), stock |-> MaxStock]]
    /\ stock0 = [p \in ProductIds |-> MaxStock]
    /\ orders = <<>>
    /\ orderCounter = 1
    /\ slot = [s \in Slots |-> IdleSlot]
    /\ spans = [s \in Slots |-> <<>>]
    /\ logs = [s \in Slots |-> <<>>]
    /\ gen = GenStart

GenSpec == GenInit /\ [][GenNext]_vars

----------------------------------------------------------------------------
(* The scenario loops once started, followed without end *)

NodeStates == {"up", "failing", "hanging"}

\* The loops followed: they share no state, so one loop of each shape of
\* scenario is enough (a single request with and without calls to peers, two
\* and three requests in a row).
LiveLoops ==
    { "generateUserTraffic", "generateProductTraffic", "generateOrderTraffic",
      "generateHealthChecks" }

\* main has started the loops; since waitForServices returned one node may
\* have stopped answering.  The ticks taken are not counted here.
LiveInit ==
    /\ users = InitUsers
    /\ products = [p \in ProductIds |-> [price |-> PriceOf(p), stock |-> MaxStock]]
    /\ stock0 = [p \in ProductIds |-> MaxStock]
    /\ orders = <<>>
    /\ orderCounter = 1
    /\ slot = [s \in Slots |-> IdleSlot]
    /\ spans = [s \in Slots |-> <<>>]
    /\ logs = [s \in Slots |-> <<>>]
    /\ \E st \in [Nodes -> NodeStates] :
          /\ Cardinality({n \in Nodes : st[n] # "up"}) <= 1
          /\ gen = [GenStart EXCEPT !.phase = "running", !.ok200 = Nodes, !.status = st,
                                 !.count = FALSE]

\* A second passes, on a clock that starts over after each period.
LiveAdvance ==
    /\ \A l \in LiveLoops :
        /\ gen.loop[l].pc # "calling"
        /\ gen.loop[l].pc = "idle" => ~gen.loop[l].pending
        /\ gen.loop[l].pc = "blocked" => gen.now # gen.loop[l].until
    /\ gen' = [gen EXCEPT
                 !.now = (@ + 1) % Period,
                 !.loop = [l \in Loops |->
                             IF l \in LiveLoops /\ (gen.now + 1) % Interval(l) = 0
                             THEN [gen.loop[l] EXCEPT !.pending = TRUE]
                             ELSE gen.loop[l]]]
    /\ UNCHANGED mesh

LiveNext ==
    \/ LiveAdvance
    \/ \E l \in LiveLoops : LoopTick(l)
    \/ \E l \in LiveLoops : LoopCall(l)
    \/ \E l \in LiveLoops : LoopTimeout(l)

\* Time passes, every goroutine that can run does, and the client's timer
\* fires.
GenLive ==
    /\ LiveInit /\ [][LiveNext]_vars
    /\ WF_vars(LiveAdvance)
    /\ \A l \in LiveLoops : WF_vars(LoopTick(l)) /\ WF_vars(LoopCall(l))
                          /\ WF_vars(LoopTimeout(l))

----------------------------------------------------------------------------
(* The choice of a scenario on a tick *)

\* The loops that draw: the seven of the traffic generator and generateTraffic
\* of app1's own generator.
DrawLoops == Loops \cup {"generateTraffic"}

\* n of the loop's rand.Intn(n); generateHealthChecks draws nothing, and
\* rand.Float32() of generateTraffic is taken in hundredths.
Intn(l) ==
    CASE l \in {"generateUserTraffic", "generateProductTraffic",
                "generateOrderTraffic", "generateTraffic"} -> 100
      [] l = "generateHealthChecks" -> 1
      [] l = "generateAdvancedUserTraffic" -> 4
      [] l \in {"generateAdvancedProductTraffic",
                "generateAdvancedOrderTraffic"} -> 5

\* One branch of a loop body: if scenario < n ("lt"), case n ("eq"), else or
\* default ("else").
Lt(name, n) == [name |-> name, test |-> "lt", n |-> n]
Case(name, n) == [name |-> name, test |-> "eq", n |-> n]
Else(name) == [name |-> name, test |-> "else", n |-> 0]

\* The if / else-if / else chain or the switch of each loop body, in the
\* order of the source.
Chain(l) ==
    CASE l = "generateUserTraffic" ->
            <<Lt("login", 30), Lt("registration", 60), Else("favorites")>>
      [] l = "generateProductTraffic" ->
            <<Lt("browse_all", 25), Lt("search", 50), Lt("browse_category", 75),
              Else("product_details")>>
      [] l = "generateOrderTraffic" ->
            <<Lt("complete_order", 40), Lt("check_orders", 70), Else("browse_orders")>>
      [] l = "generateHealthChecks" ->
            <<Else("health_monitoring")>>
      [] l = "generateAdvancedUserTraffic" ->
            <<Case("update_preferences", 0), Case("search_users", 1),
              Case("refresh_token", 2), Else("user_profile")>>
      [] l = "generateAdvancedProductTraffic" ->
            <<Case("trending", 0), Case("record_view", 1), Case("by_category", 2),
              Case("update_price", 3), Else("search")>>
      [] l = "generateAdvancedOrderTraffic" ->
            <<Case("cancel", 0), Case("tracking", 1), Case("refund", 2),
              Case("analytics", 3), Else("create_and_pay")>>
      [] l = "generateTraffic" ->
            <<Lt("/health", 50), Lt("/data", 90), Else("/slow")>>

\* The test of a branch for the draw d.
Holds(b, d) ==
    CASE b.test = "lt" -> d < b.n
      [] b.test = "eq" -> d = b.n
      [] b.test = "else" -> TRUE

\* A body of independent ifs: every branch whose test holds is run.
RECURSIVE SelectEvery(_, _)
SelectEvery(chain, d) ==
    IF chain = <<>> THEN <<>>
    ELSE (IF Holds(Head(chain), d) THEN <<Head(chain).name>> ELSE <<>>)
         \o SelectEvery(Tail(chain), d)

\* The branches the body runs for the draw d: the tests are tried in order
\* and the first that holds ends the chain (else-if; a Go switch does not
\* fall through).
RECURSIVE Select(_, _)
Select(chain, d) ==
    IF chain = <<>> THEN <<>>
    ELSE IF Holds(Head(chain), d) THEN <<Head(chain).name>>
    ELSE Select(Tail(chain), d)

\* A tick of a loop with its draw made, the body not yet run.
DrawInit ==
    /\ users = InitUsers
    /\ products \in StockTables
    /\ stock0 = [p \in ProductIds |-> products[p].stock]
    /\ orders = <<>>
    /\ orderCounter = 1
    /\ slot = [s \in Slots |-> IdleSlot]
    /\ spans = [s \in Slots |-> <<>>]
    /\ logs = [s \in Slots |-> <<>>]
    /\ \E l \in DrawLoops : \E d \in 0..(Intn(l) - 1) :
          gen = [pc |-> "drawn", loop |-> l, draw |-> d, taken |-> <<>>]

\* The loop body runs.
RunBody ==
    /\ gen.pc = "drawn"
    /\ gen' = [gen EXCEPT !.pc = "ran", !.taken = Select(Chain(gen.loop), gen.draw)]
    /\ UNCHANGED mesh

DrawNext == RunBody

DrawSpec == DrawInit /\ [][DrawNext]_vars

----------------------------------------------------------------------------
(* Properties of the service mesh, checked under Spec *)

Done(s) == slot[s].pc = "done"

\* The spans of slot s that belong to operations still running: the
\* generator's tick and helper, the server span and the handler of the request,
\* and, while product-service is between its stock check and its answer to
\* order-service, reserveInventory's span and the peer's two; the span of a
\* call still waiting for its peer.
OpenOf(s) ==
    IF slot[s].pc \in {"idle", "done"} THEN {}
    ELSE ({slot[s].root, slot[s].gh, slot[s].srv, slot[s].hs} \ {0})
         \cup (IF slot[s].kind = "order" /\ slot[s].pc \in {"resLoad", "resStore"}
               THEN {slot[s].cs, slot[s].psrv, slot[s].phs} ELSE {})
         \cup (IF slot[s].pc = "hung" THEN {slot[s].cs} ELSE {})

\* C1: every span started by a handler or an outbound-call helper is ended
\* exactly once on every exit path: a span is open only while its operation
\* runs, no span is ended twice, and once the request is answered every span
\* of its chain has been ended once.
C1_SpansEndedExactlyOnce ==
    \A s \in Slots : \A k \in DOMAIN spans[s] :
        spans[s][k].ends = IF k \in OpenOf(s) THEN 0 ELSE 1

\* A create-order answered 409 after its second reservation failed, and an
\* app1 /data request that took the error path.
C1_Witness ==
    /\ \E s \in Slots : /\ Done(s) /\ slot[s].kind = "order"
                        /\ slot[s].status = 409 /\ slot[s].reserves = 2
                        /\ Len(spans[s]) >= 9
    /\ \E s \in Slots : /\ Done(s) /\ slot[s].kind = "app1"
                        /\ slot[s].status = 500

Roots(s) == {k \in DOMAIN spans[s] : spans[s][k].parent = 0}

\* C2: each span has the trace id of its parent, and the chain of one
\* externally-triggered request or generator tick has exactly one parentless
\* span.
C2_TraceTree ==
    \A s \in Slots :
        /\ \A k \in DOMAIN spans[s] :
              spans[s][k].parent # 0 =>
                  /\ spans[s][k].parent \in 1..(k - 1)
                  /\ spans[s][spans[s][k].parent].trace = spans[s][k].trace
        /\ spans[s] # <<>> => Cardinality(Roots(s)) = 1

\* A generator tick whose create-order went through both services to a 201,
\* and a request with a malformed traceparent that called its peers.
C2_Witness ==
    /\ \E s \in Slots : /\ Done(s) /\ slot[s].kind = "order"
                        /\ slot[s].origin = "generator" /\ slot[s].status = 201
    /\ \E s \in Slots : /\ Done(s) /\ slot[s].kind = "order"
                        /\ slot[s].origin = "external" /\ slot[s].lookups >= 1

NItems(s) == Len(slot[s].body.items)

OrderRequest(s) == slot[s].kind = "order" /\ slot[s].body.valid

\* C3: a create-order request with N items issues at most N price lookups
\* and at most one reserve call per lookup, whatever the outcome, and exactly
\* N of each when the order is created.
C3_LookupsAndReserves ==
    \A s \in Slots : OrderRequest(s) =>
        /\ slot[s].lookups <= NItems(s)
        /\ slot[s].reserves <= slot[s].lookups
        /\ (Done(s) /\ slot[s].status = 201) =>
               slot[s].lookups = NItems(s) /\ slot[s].reserves = NItems(s)

\* A two-item order created, and a two-item order refused after its first
\* lookup.
C3_Witness ==
    /\ \E s \in Slots : /\ OrderRequest(s) /\ Done(s) /\ slot[s].status = 201
                        /\ NItems(s) = 2 /\ slot[s].lookups = 2
                        /\ slot[s].reserves = 2
    /\ \E s \in Slots : /\ OrderRequest(s) /\ Done(s) /\ slot[s].status # 201
                        /\ NItems(s) = 2 /\ slot[s].lookups = 1

\* C3 as stated: exactly N price lookups and at most N reserve calls,
\* whatever the outcome.
C3_ExactlyNLookups ==
    \A s \in Slots : (OrderRequest(s) /\ Done(s)) =>
        slot[s].lookups = NItems(s) /\ slot[s].reserves <= NItems(s)

\* C4: if the reservation of any item fails (product-service answers other
\* than 200, or the call fails), the request stops there: it is answered 409,
\* it has not appended an order and has not advanced the order counter.
C4_FailedReservation ==
    \A s \in Slots : (slot[s].kind = "order" /\ slot[s].resFailed) =>
        /\ Done(s) /\ slot[s].status = 409
        /\ ~slot[s].appended /\ ~slot[s].advanced

\* The second reservation of an order failed on insufficient stock, and a
\* reservation failed because the call did.
C4_Witness ==
    /\ \E s \in Slots : /\ slot[s].kind = "order" /\ slot[s].resFailed
                        /\ slot[s].short /\ slot[s].reserves = 2
    /\ \E s \in Slots : /\ slot[s].kind = "order" /\ slot[s].resFailed
                        /\ slot[s].netErr /\ ~slot[s].short

RECURSIVE SumItems(_)
SumItems(its) ==
    IF its = <<>> THEN 0
    ELSE PriceOf(Head(its).product_id) * Head(its).quantity + SumItems(Tail(its))

\* The order of slot s as createOrderHandler should have stored it.
Stored(s) ==
    \E k \in DOMAIN orders :
        /\ orders[k].id = slot[s].cnt
        /\ orders[k].user_id = slot[s].body.user_id
        /\ orders[k].status = "pending"
        /\ orders[k].total = SumItems(slot[s].body.items)
        /\ Len(orders[k].items) = 2

\* C5: a create-order request for an existing user with two items whose
\* products exist and whose stock is sufficient (no call failed, no stock
\* check fell short) is answered 201 with status "pending" and total = sum of
\* price x quantity, and the order is in the orders table.
C5_OrderCreatedAndStored ==
    \A s \in Slots :
        ( /\ OrderRequest(s) /\ Done(s)
          /\ UserExists(slot[s].body.user_id)
          /\ NItems(s) = 2
          /\ \A k \in 1..2 : slot[s].body.items[k].product_id \in ProductIds
          /\ ~slot[s].netErr /\ ~slot[s].short )
        => (slot[s].status = 201 /\ slot[s].total = SumItems(slot[s].body.items)
            /\ Stored(s))

\* A login request whose body parsed and whose email is no user's.
UnknownLogin(s) ==
    /\ slot[s].kind = "login" /\ Done(s)
    /\ slot[s].body.valid /\ ~EmailKnown(slot[s].email)

\* The error-level lines of slot s that carry the trace id of its handler.
ErrorLines(s) ==
    {k \in DOMAIN logs[s] : /\ logs[s][k].level = "error"
                            /\ logs[s][k].trace = spans[s][slot[s].hs].trace}

\* C6: a login request whose email matches no user is always answered 401 and
\* emits exactly one error-level log line, with the trace id and
\* error=invalid_credentials.
C6_UnknownLogin401ErrorLine ==
    \A s \in Slots : UnknownLogin(s) =>
        /\ slot[s].status = 401
        /\ Cardinality(ErrorLines(s)) = 1
        /\ \A k \in ErrorLines(s) : logs[s][k].error = "invalid_credentials"

\* Slot s takes, in this step, a reserve-inventory request for an existing
\* product and a quantity above the product's current stock.
ReserveTooMuch(s) ==
    /\ slot[s].pc = "idle" /\ slot'[s].kind = "reserve"
    /\ slot'[s].pid \in DOMAIN products
    /\ slot'[s].qty > products[slot'[s].pid].stock

\* C7: a reserve-inventory request for an existing product whose requested
\* quantity exceeds the current stock is answered 409 and leaves the stock of
\* every product unchanged.
C7_InsufficientStock ==
    [][\A s \in Slots : ReserveTooMuch(s) =>
            /\ slot'[s].pc = "done" /\ slot'[s].status = 409
            /\ products' = products]_vars

\* A reserve-inventory request for 2 of a product with 1 in stock, answered
\* 409.
C7_Witness ==
    \E s \in Slots : /\ Done(s) /\ slot[s].kind = "reserve" /\ slot[s].status = 409
                     /\ slot[s].qty = 2 /\ slot[s].pid \in ProductIds
                     /\ products[slot[s].pid].stock = 1

RECURSIVE SumGranted(_, _)
SumGranted(S, p) ==
    IF S = {} THEN 0
    ELSE LET s == CHOOSE x \in S : TRUE
         IN  slot[s].granted[p] + SumGranted(S \ {s}, p)

\* C8: whatever the interleaving of concurrent reserve requests, once they
\* are all answered the stock of each product is its initial stock minus the
\* quantities granted (no lost update, no grant on a stale read of the stock).
C8_NoLostUpdate ==
    (\A s \in Slots : slot[s].pc \in {"idle", "done"}) =>
        \A p \in ProductIds :
            products[p].stock = stock0[p] - SumGranted(Slots, p)

\* A request taken by a handler and not answered yet.
Handling(s) == slot[s].pc \notin {"idle", "done"}

\* C12: every outbound call of a service node returns to its caller even when
\* the peer never answers, so that every request taken is eventually
\* answered.
C12_EveryRequestAnswered ==
    \A s \in Slots : Handling(s) ~> Done(s)

\* C13: when a call to a required peer fails because the peer is unavailable
\* (httpClient.Do returns an error), the enclosing request is aborted and
\* answered 503, for create-order and for get-favorites alike.
C13_UnavailablePeer503 ==
    \A s \in Slots :
        (Done(s) /\ slot[s].kind \in {"order", "favorites"} /\ slot[s].netErr)
            => slot[s].status = 503

\* C14: when the reservation for an item of a create-order request fails,
\* the step that answers the failure leaves the stock of every product as it
\* is (what items 1..k-1 had deducted stays deducted, nothing is released),
\* and the answered request does nothing afterwards.
C14_NoRelease ==
    [][\A s \in Slots :
          /\ (slot[s].kind = "order" /\ slot[s].pc = "reserve"
                /\ slot'[s].pc = "done")
                 => (products' = products /\ slot'[s].granted = slot[s].granted)
          /\ Done(s) => slot'[s] = slot[s]]_vars

\* A two-item order whose second reservation failed after the first had
\* deducted its quantity, which is still missing from the stock.
C14_Witness ==
    \E s \in Slots :
        /\ Done(s) /\ slot[s].kind = "order" /\ slot[s].resFailed
        /\ slot[s].status = 409 /\ slot[s].reserves = 2
        /\ LET p == slot[s].body.items[1].product_id
           IN  /\ slot[s].granted[p] = slot[s].body.items[1].quantity
               /\ products[p].stock = stock0[p] - slot[s].granted[p]

\* The spans of order-service's outbound-call helpers in slot s, by index.
HelperCalls(s) ==
    {k \in DOMAIN spans[s] :
        spans[s][k].name \in {"validate_user_call", "get_product_details_call",
                              "reserve_inventory_call"}}

\* The helper calls of slot s were started in the order validate, then
\* lookup and reserve in turn, each after the one before had returned.
CallsInOrder(s) ==
    \A k \in HelperCalls(s) :
        LET n == Cardinality({j \in HelperCalls(s) : j <= k})
        IN  /\ spans[s][k].name =
                   IF n = 1 THEN "validate_user_call"
                   ELSE IF n % 2 = 0 THEN "get_product_details_call"
                   ELSE "reserve_inventory_call"
            /\ \A j \in HelperCalls(s) : j < k => spans[s][j].ends = 1

\* C15: within one create-order request the user validation has returned
\* before any catalog call is issued, each item's price lookup has returned
\* before its reservation is issued, and the items are taken in request
\* order: the n-th lookup and the n-th reservation are for the n-th item.
C15_CallsOrdered ==
    [][\A s \in Slots : slot'[s].kind = "order" =>
          /\ CallsInOrder(s)'
          /\ slot'[s].lookups = slot[s].lookups + 1 =>
                 slot'[s].pid = slot[s].body.items[slot'[s].lookups].product_id
          /\ slot'[s].reserves = slot[s].reserves + 1 =>
                 /\ slot'[s].reserves = slot[s].lookups
                 /\ slot[s].pid = slot[s].body.items[slot'[s].reserves].product_id
                 /\ slot[s].qty = slot[s].body.items[slot'[s].reserves].quantity]_vars

\* A two-item order created after five calls: validate, lookup, reserve,
\* lookup, reserve.
C15_Witness ==
    \E s \in Slots :
        /\ Done(s) /\ slot[s].kind = "order" /\ slot[s].status = 201
        /\ NItems(s) = 2 /\ Cardinality(HelperCalls(s)) = 5
        /\ slot[s].body.items[1].product_id # slot[s].body.items[2].product_id

\* C16: in the generator's full-order scenario, whenever create-order is
\* answered 201 with an order id, the generator goes on, in this order and in
\* the same trace, with process-payment, a wait, get-order and update-status
\* "shipped" for that id.
C16_FullOrderFollowUps ==
    \A s \in Slots :
        ( /\ Done(s) /\ slot[s].kind = "order"
          /\ slot[s].origin = "generator" /\ slot[s].status = 201 )
        => slot[s].after =
               <<"process_payment", "sleep", "get_order", "update_order_status">>

\* The lines the handler of slot s's request has logged itself: those of its
\* service with its trace id (the middleware's "HTTP request" line has none).
OutcomeLines(s) ==
    {k \in DOMAIN logs[s] :
        /\ logs[s][k].service = spans[s][slot[s].hs].service
        /\ logs[s][k].trace = spans[s][slot[s].hs].trace
        /\ logs[s][k].msg # "HTTP request"}

\* C17: every request handled by an endpoint of a service node emits exactly
\* one trace-correlated log line summarizing its outcome, on every exit path.
C17_OneOutcomeLine ==
    \A s \in Slots :
        (Done(s) /\ slot[s].kind \in {"order", "login", "favorites", "reserve"})
            => Cardinality(OutcomeLines(s)) = 1

\* C18: every log record emitted while a request is handled carries the
\* trace id of the span active for that request (all the spans of one
\* request's chain share one trace id).
C18_LinesCarryTraceId ==
    \A s \in Slots :
        slot[s].kind \in {"order", "login", "favorites", "reserve"} =>
            \A k \in DOMAIN logs[s] :
                logs[s][k].trace = spans[s][slot[s].srv].trace

\* Span k of slot s is marked as failed.
Marked(s, k) == spans[s][k].error # ""

\* The spans of the outbound calls made while the request of slot s was
\* handled.
CallSpans(s) ==
    HelperCalls(s) \cup {k \in DOMAIN spans[s] :
                            spans[s][k].name = "call_product_service"}

\* The call of span k failed or was answered with an error status: no server
\* span was started under it, or the peer's handler marked its own span.
CallFailed(s, k) ==
    LET srv == {j \in DOMAIN spans[s] : spans[s][j].parent = k}
    IN  \/ srv = {}
        \/ \E j \in srv : \E h \in DOMAIN spans[s] :
               spans[s][h].parent = j /\ Marked(s, h)

\* C19: every span is closed marked according to its operation's outcome:
\* the handler span of a request answered with a status >= 400 is marked as
\* failed and that of a successful one is not, and so is the span of the
\* generator's call; the span of an outbound call that failed or was answered
\* with an error status is marked, and none is marked in a successful request.
C19_SpansMarkedByOutcome ==
    \A s \in Slots :
        (Done(s) /\ slot[s].kind \in {"order", "login", "favorites", "reserve"})
        => /\ Marked(s, slot[s].hs) <=> slot[s].status >= 400
           /\ slot[s].gh # 0 => (Marked(s, slot[s].gh) <=> slot[s].status >= 400)
           /\ \A k \in CallSpans(s) :
                  /\ CallFailed(s, k) => Marked(s, k)
                  /\ Marked(s, k) => slot[s].status >= 400

\* Slots r and s took the same login or get-favorites request: same faults
\* drawn, same body or id, same credentials.
SameRequest(r, s) ==
    /\ slot[r].kind = slot[s].kind /\ slot[r].kind \in {"login", "favorites"}
    /\ slot[r].body = slot[s].body
    /\ slot[r].email = slot[s].email /\ slot[r].password = slot[s].password
    /\ slot[r].draw = slot[s].draw /\ slot[r].net = slot[s].net

\* C20: a request whose traceparent header is absent or does not parse is
\* handled under a new root context (its server span has no parent and a
\* trace id of its own) and is answered as the same request with a valid
\* header is.
C20_FreshRootSameResponse ==
    \A s \in Slots :
        (slot[s].sender \in {"absent", "malformed"} /\ slot[s].srv # 0) =>
            /\ spans[s][slot[s].srv].parent = 0
            /\ spans[s][slot[s].srv].trace = <<s, slot[s].srv>>
            /\ \A r \in Slots :
                  ( /\ slot[r].sender = "generator" /\ Done(r) /\ Done(s)
                    /\ SameRequest(r, s) )
                  => slot[r].status = slot[s].status

\* A login with a traceparent that does not parse and the same login sent by
\* the generator, both answered 401.
C20_Witness ==
    \E r, s \in Slots :
        /\ slot[s].sender = "malformed" /\ slot[r].sender = "generator"
        /\ Done(r) /\ Done(s) /\ SameRequest(r, s)
        /\ slot[s].kind = "login" /\ slot[s].status = 401

\* C22: a record-view request whose product id is a number never gets an
\* error status: it is answered 202 when the analytics failure is drawn and
\* 200 otherwise, and the step that handles it leaves the products table
\* unchanged.
C22_RecordViewSoftSuccess ==
    [][\A s \in Slots :
          (slot[s].pc = "idle" /\ slot'[s].kind = "view" /\ slot'[s].body.valid)
          => /\ slot'[s].pc = "done"
             /\ slot'[s].status = IF slot'[s].draw < 5 THEN 202 ELSE 200
             /\ products' = products]_vars

\* One record-view request answered 202 and another answered 200, for a
\* product of the table.
C22_Witness ==
    \E r, s \in Slots :
        /\ Done(r) /\ slot[r].kind = "view" /\ slot[r].status = 202
        /\ Done(s) /\ slot[s].kind = "view" /\ slot[s].status = 200
        /\ slot[r].pid \in ProductIds /\ slot[r].draw = 4 /\ slot[s].draw = 5

\* C23: handing a finished span to the trace sink never blocks the handling
\* of a request: with a sink that accepts nothing, every span.End() returns,
\* the span being queued or dropped, and the answered request has ended all
\* its spans.
C23_SpanHandoffNeverBlocks ==
    \A s \in Slots :
        /\ \A k \in DOMAIN spans[s] :
              /\ spans[s][k].sink # "blocked"
              /\ spans[s][k].ends >= 1 => spans[s][k].sink \in {"queued", "dropped"}
        /\ Done(s) => \A k \in DOMAIN spans[s] : spans[s][k].ends >= 1

\* A created order whose later spans found the queue of order-service's
\* processor full and were dropped.
C23_Witness ==
    \E s \in Slots :
        /\ Done(s) /\ slot[s].kind = "order" /\ slot[s].status = 201
        /\ Queued(spans[s], "order-service") = MaxQueueSize
        /\ \E k \in DOMAIN spans[s] :
              spans[s][k].service = "order-service" /\ spans[s][k].sink = "dropped"

\* C24: a create-order request with the documented body makes order-service
\* call both user-service and product-service within the request's trace.
C24_DocumentedOrderCallsBoth ==
    \A s \in Slots :
        ( /\ Done(s) /\ slot[s].kind = "order"
          /\ slot[s].body = ShouldBindJSON(DocumentedJSON) )
        => \A svc \in {"user-service", "product-service"} :
              \E k \in DOMAIN spans[s] :
                 /\ spans[s][k].service = svc
                 /\ spans[s][k].trace = spans[s][slot[s].hs].trace

\* C25: every request to /health, /data or /slow of app1 records exactly one
\* observation in http_request_duration_seconds, on every exit path of its
\* handler, the injected-error path of /data included.
C25_OneObservation ==
    \A s \in Slots :
        (Done(s) /\ slot[s].kind = "app1") => slot[s].obs = 1

\* C26: every request to app1 increments http_requests_total exactly once, and
\* the status_code label of that increment is the status sent: 200, or 500 on
\* the injected-error path of /data.
C26_OneCountWithSentStatus ==
    \A s \in Slots :
        (Done(s) /\ slot[s].kind = "app1")
            => /\ slot[s].inc = <<slot[s].status>>
               /\ slot[s].status \in {200, 500}
               /\ slot[s].status = 500 => slot[s].endpoint = "/data"

\* A request to /data took the injected-error path and was counted under 500,
\* while another request was counted under 200.
C26_Witness ==
    \E s, u \in Slots :
        /\ Done(s) /\ slot[s].kind = "app1" /\ slot[s].endpoint = "/data"
        /\ slot[s].status = 500 /\ slot[s].inc = <<500>>
        /\ Done(u) /\ slot[u].kind = "app1" /\ slot[u].inc = <<200>>

\* C27: when the user validation of a create-order request fails (user-service
\* answers something other than 200, or the call errors), the request is
\* answered with an error in that step: no catalog lookup and no reserve call
\* was made for it, and the orders table, the order counter and every stock
\* are left as they were.
C27_FailedValidationChangesNothing ==
    [][\A s \in Slots :
          ( /\ slot[s].pc = "validate"
            /\ slot'[s].pc \notin {"validate", "hung"}
            /\ ~UserExists(slot[s].body.user_id) \/ slot'[s].netErr )
          => /\ slot'[s].pc = "done"
             /\ slot'[s].status = 400
             /\ slot'[s].lookups = 0 /\ slot'[s].reserves = 0
             /\ slot'[s].granted = [p \in ProductIds |-> 0]
             /\ \A k \in DOMAIN spans'[s] :
                   spans'[s][k].service # "product-service"
             /\ orders' = orders
             /\ orderCounter' = orderCounter
             /\ products' = products]_vars

\* One create-order request was refused because user-service answered 404 and
\* another because the call to user-service failed, each with items in its
\* body and nothing done for them.
C27_Witness ==
    \E r, s \in Slots :
        /\ Done(r) /\ slot[r].kind = "order" /\ slot[r].body.valid
        /\ ~UserExists(slot[r].body.user_id) /\ ~slot[r].netErr
        /\ Len(slot[r].body.items) > 0 /\ slot[r].status = 400
        /\ Done(s) /\ slot[s].kind = "order" /\ slot[s].body.valid
        /\ UserExists(slot[s].body.user_id) /\ slot[s].netErr
        /\ Len(slot[s].body.items) > 0 /\ slot[s].status = 400
        /\ slot[s].lookups = 0 /\ slot[r].lookups = 0
        /\ orders = <<>> /\ orderCounter = 1
        /\ \A p \in ProductIds : products[p].stock = stock0[p]

\* C30: after any sequence and interleaving of create-order requests, the
\* orders of the table have pairwise distinct ids.
C30_DistinctOrderIds ==
    \A j, k \in 1..Len(orders) : j # k => orders[j].id # orders[k].id

\* C31: for every order stored by a create-order request, the order_id sent
\* to product-service in each reserve-inventory call of that request is the
\* id under which the order is stored, whatever the interleaving of
\* concurrent create-order requests.
C31_ReservedUnderStoredId ==
    \A s \in Slots :
        (slot[s].kind = "order" /\ slot[s].appended)
            => \A k \in DOMAIN slot[s].resIds : slot[s].resIds[k] = slot[s].cnt

----------------
(* Payments, checked under PaySpec *)

\* The order a payment request asked for, as the table holds it now.
HeldPaid(s) ==
    \E k \in 1..Len(orders) :
        /\ orders[k].id = slot[s].oid
        /\ orders[k].status = "paid"
        /\ orders[k].payment_id = slot[s].payId

\* C28: once process-payment has answered 200 for an order, the orders table
\* holds that order with status "paid" and the payment id of the answer, from
\* then on, also when create-order requests append to the table during the
\* payment's processing delay; a payment request answered 404 or 402 modifies
\* no order.
C28_PaidOrderStaysPaid ==
    [][\A s \in Slots :
          /\ ( slot'[s].pc = "done" /\ slot'[s].kind = "pay"
               /\ slot'[s].status = 200 ) => HeldPaid(s)'
          /\ ( slot[s].pc # "done" /\ slot'[s].pc = "done" /\ slot'[s].kind = "pay"
               /\ slot'[s].status \in {402, 404} ) => orders' = orders]_vars

----------------
(* The inventory and price endpoints, checked under StockSpec *)

\* C32: in every reachable state of product-service the stock of every
\* product is non-negative, after any sequence and interleaving of
\* reserve-inventory and release-inventory requests with any integer
\* quantities.
C32_StockNeverNegative ==
    \A p \in ProductIds : products[p].stock >= 0

\* C33: a reserve-inventory request answered 200 for quantity q, followed by
\* a release-inventory request for the same product and the same q, with no
\* other request on that product in between, brings the product's stock back
\* to its value before the reservation.
C33_ReleaseUndoesReserve ==
    \A r, s \in Slots :
        ( /\ Done(r) /\ slot[r].kind = "reserve" /\ slot[r].status = 200
          /\ Done(s) /\ slot[s].kind = "release" /\ slot[s].status = 200
          /\ r \in slot[s].prior
          /\ slot[s].pid = slot[r].pid /\ slot[s].qty = slot[r].qty )
        => products[slot[r].pid].stock = slot[r].was

\* A reservation of 2 units answered 200, then the release of 2 units of the
\* same product: the release read the reduced stock and the stock is again
\* what it was before the reservation.
C33_Witness ==
    \E r, s \in Slots :
        /\ Done(r) /\ slot[r].kind = "reserve" /\ slot[r].status = 200
        /\ Done(s) /\ slot[s].kind = "release" /\ slot[s].status = 200
        /\ r \in slot[s].prior
        /\ slot[s].pid = slot[r].pid /\ slot[s].qty = slot[r].qty
        /\ slot[r].qty = 2 /\ slot[s].ld = slot[r].was - 2
        /\ products[slot[r].pid].stock = slot[r].was

\* The kinds of request product-service handles itself.
CatalogKinds == {"reserve", "release", "price", "read", "view"}

----------------
(* Registration and get-user, checked under UserSpec *)

\* C35: after any sequence and interleaving of register requests no two
\* users of the table share an email and no two share an id; a register
\* request for an email already in the table is answered 409 and leaves the
\* table as it is.
C35_UsersStayDistinct ==
    [][/\ \A j, k \in 1..Len(users') :
             j # k => /\ users'[j].email # users'[k].email
                      /\ users'[j].id # users'[k].id
       /\ \A s \in Slots :
             ( /\ slot[s].pc = "idle" /\ slot'[s].kind = "register"
               /\ slot'[s].body.valid /\ EmailKnown(slot'[s].email) )
             => /\ slot'[s].pc = "done" /\ slot'[s].status = 409
                /\ users' = users]_vars

\* C38: a get-user response never holds the user's password, and handling
\* get-user leaves the users table as it is, so that a login with the email
\* and the original password of a user passes the credential check after any
\* number of get-user requests.
C38_GetUserKeepsPasswords ==
    [][/\ \A s \in Slots :
             ( slot'[s].kind = "getuser" /\ slot'[s] # slot[s] )
             => /\ users' = users
                /\ slot'[s].status = 200
                      => /\ slot'[s].resp.id = slot'[s].oid
                         /\ slot'[s].resp.password = ""
       /\ \A k \in 1..Len(InitUsers) :
             CredentialsMatch(InitUsers[k].email, InitUsers[k].password)'
       /\ \A s \in Slots :
             ( /\ slot[s].pc = "idle" /\ slot'[s].kind = "login"
               /\ slot'[s].body.valid /\ slot'[s].draw >= 15
               /\ \E k \in 1..Len(InitUsers) :
                     /\ InitUsers[k].email = slot'[s].email
                     /\ InitUsers[k].password = slot'[s].password )
             => slot'[s].status = 200]_vars

\* John's record was fetched twice by one client, without a password in the
\* answer, and then John logged in with the original password.
C38_Witness ==
    \E r, s \in Slots :
        /\ Done(r) /\ slot[r].kind = "getuser" /\ slot[r].status = 200
        /\ slot[r].sent = 2 /\ slot[r].oid = 1 /\ slot[r].resp.password = ""
        /\ slot[r].resp.email = "john@example.com"
        /\ Done(s) /\ slot[s].kind = "login" /\ slot[s].status = 200
        /\ slot[s].email = "john@example.com" /\ slot[s].password = "password123"
        /\ Len(spans[s]) > 0 /\ spans[s][1].trace[2] = 1

----------------
(* The status of an order, checked under StatusSpec *)

\* C36: once the status of an order is "cancelled" it never changes again:
\* no later update-status, process-payment or cancel request alters it.
C36_CancelledIsFinal ==
    [][\A k \in 1..Len(orders) :
          orders[k].status = "cancelled"
              => k <= Len(orders') /\ orders'[k].status = "cancelled"]_vars

----------------------------------------------------------------------------
(* Properties of the traffic generator, checked under GenSpec *)

\* The nodes the generator itself sends the requests of loop l to.
Direct(l) == UNION {{sc[k].to : k \in DOMAIN sc} : sc \in Scenarios(l)}

\* Loop l has run one scenario for every tick of its ticker so far, or is
\* about to run the one for the tick just sent, and is not held in a call.
OnSchedule(l) ==
    /\ gen.loop[l].pc # "blocked"
    /\ gen.loop[l].runs + (IF gen.loop[l].pending THEN 1 ELSE 0)
           = gen.now \div Interval(l)

\* C9: if one node stops answering, every loop whose scenarios call only the
\* other nodes keeps executing one scenario per tick on its own interval.
C9_OtherLoopsOnSchedule ==
    \A l \in Loops : gen.down \notin Direct(l) => OnSchedule(l)

\* The nodes a scenario of loop l reaches, directly or through the handler
\* of the node called.
Involved(l) ==
    Direct(l) \cup UNION {UNION {sc[k].via : k \in DOMAIN sc} : sc \in Scenarios(l)}

\* The loops that reach the stopped node neither directly nor through a
\* called node are on schedule.
UninvolvedLoopsOnSchedule ==
    \A l \in Loops : gen.down \notin Involved(l) => OnSchedule(l)

\* C10: no scenario request is issued, and no loop is started, before each
\* of the three nodes has answered its health endpoint with 200; until then
\* waitForServices is still polling.
C10_HealthBeforeTraffic ==
    (gen.sent \/ gen.phase = "running") => gen.ok200 = Nodes

\* A scenario request was sent after some health poll had to be repeated.
C10_Witness ==
    gen.sent /\ gen.polls >= 1 /\ gen.ok200 = Nodes

\* The trace ids of the ticks taken so far by any loop.
UsedTraces == UNION {gen.loop[l].used : l \in Loops}

\* C21: every tick of every loop starts a new root span whose trace id no
\* earlier tick has used; every call of the scenario runs under a child span
\* of it, in its trace; the root span is ended when the scenario is over,
\* after all its call spans, whether the calls were answered, refused or
\* timed out, and no span is ended twice.
C21_TickSpans ==
    [][\A l \in Loops :
          LET lp == gen.loop[l]
              lq == gen'.loop[l]
          IN  /\ lq.runs = lp.runs + 1 =>
                     /\ lq.sp[1].parent = 0
                     /\ lq.sp[1].trace \notin UsedTraces
                     /\ lp.sp # <<>> => lp.sp[1].ends = 1
              /\ lq.pc = "blocked" =>
                     Len(lq.sp) >= 2 /\ lq.sp[Len(lq.sp)].ends = 0
              /\ (lq # lp /\ lp.pc = "calling") =>
                     Len(lq.sp) = Len(lp.sp) + 1
              /\ \A k \in 2..Len(lq.sp) :
                     /\ lq.sp[k].parent = 1
                     /\ lq.sp[k].trace = lq.sp[1].trace
                     /\ lq.sp[k].ends <= 1
                     /\ lq.sp[1].ends = 1 => lq.sp[k].ends = 1
              /\ lq.sp # <<>> =>
                     lq.sp[1].ends = (IF lq.pc = "idle" THEN 1 ELSE 0)]_vars

\* The advanced product loop, whose first request ran into the client's
\* timeout, has ended that tick's span and is in a later tick, under a new
\* root, with its request pending.
C21_Witness ==
    LET lp == gen.loop["generateAdvancedProductTraffic"]
    IN  /\ lp.timedOut /\ lp.runs >= 2 /\ lp.pc = "blocked"
        /\ Len(lp.sp) = 2 /\ lp.sp[1].ends = 0
        /\ Cardinality(lp.used) = lp.runs

\* C37: within one generator loop at most one scenario execution is in
\* flight at any time: the scenario of a tick starts only after the scenario
\* of the previous tick has finished and its root span has been ended, also
\* when a scenario lasts longer than the loop's interval.
C37_OneScenarioInFlight ==
    [][\A l \in Loops :
          LET lp == gen.loop[l]
              lq == gen'.loop[l]
          IN  /\ lq.runs # lp.runs =>
                     /\ lq.runs = lp.runs + 1
                     /\ lp.pc = "idle" /\ lp.calls = <<>>
                     /\ \A k \in DOMAIN lp.sp : lp.sp[k].ends = 1
              /\ Cardinality({k \in DOMAIN lq.sp :
                                lq.sp[k].parent = 0 /\ lq.sp[k].ends = 0})
                     = (IF lq.pc \in {"calling", "blocked"} THEN 1 ELSE 0)]_vars

\* The order loop took its first tick at 10 s and waited 30 s for the
\* client's timeout, three intervals; it has then ended that tick's span and
\* started the scenario of the one tick kept meanwhile.
C37_Witness ==
    LET lp == gen.loop["generateOrderTraffic"]
    IN  /\ lp.timedOut /\ lp.runs = 2 /\ gen.now >= Interval("generateOrderTraffic") + Timeout
        /\ lp.sp # <<>> /\ lp.sp[1].trace[1] = <<"generateOrderTraffic", 2>>
        /\ ~lp.pending

----------------------------------------------------------------------------
(* Properties of the choice of a scenario, checked under DrawSpec *)

\* The scenario the user loop is to run for a draw: login for 0..29,
\* registration for 30..59, favorites for 60..99.
UserScenario(d) ==
    IF d \in 0..29 THEN "login"
    ELSE IF d \in 30..59 THEN "registration"
    ELSE "favorites"

\* C29: on a tick a loop runs exactly one scenario, chosen by one draw: in
\* the user loop every draw in 0..99 runs exactly one of login (0..29),
\* registration (30..59) and favorites (60..99), and in every other loop the
\* branches exclude each other and every draw runs one of them.
C29_OneScenarioPerDraw ==
    gen.pc = "ran"
        => /\ Len(gen.taken) = 1
           /\ \E k \in DOMAIN Chain(gen.loop) : Chain(gen.loop)[k].name = gen.taken[1]
           /\ gen.loop = "generateUserTraffic"
                 => /\ gen.draw \in 0..99
                    /\ gen.taken = <<UserScenario(gen.draw)>>

\* The user loop drew 59 and ran the registration scenario alone.
C29_Witness ==
    /\ gen.pc = "ran" /\ gen.loop = "generateUserTraffic" /\ gen.draw = 59
    /\ gen.taken = <<"registration">>

----------------------------------------------------------------------------
(* Properties of the running loops, checked under GenLive *)

\* C11: once started, every scenario loop runs forever: whatever the calls
\* of a scenario come to (answered, refused, timed out), the loop takes
\* another tick again and again.
C11_LoopsRunForever ==
    \A l \in LiveLoops : []<><<LoopTick(l)>>_vars

\* The order loop, whose create-order ran into the client's timeout, has
\* taken a later tick, and the request of that scenario is pending in turn.
C11_Witness ==
    /\ gen.loop["generateOrderTraffic"].timedOut
    /\ gen.loop["generateOrderTraffic"].pc = "blocked"
    /\ gen.status["user-service"] = "hanging"

====
